---- MODULE Spec2Model ----
(***************************************************************************)
(* streamlit-bokeh frontend (component v2): the global asset loader        *)
(* (loaders.ts: loadScriptOnce, ensureBokehCoreLoaded, loadBokehGlobally)  *)
(* and the per-host render orchestration (index.ts: getChartDataGenerator, *)
(* setChartThemeGenerator, getChartDimensions, updateChart,                *)
(* getOrCreateChart, getOrCreateInstanceState, bokehComponent).            *)
(*                                                                         *)
(* JavaScript is single-threaded: one step of the model is one run of code *)
(* between two suspension points.  A browser event, a timer, a host call   *)
(* (render, teardown) is a macrotask and runs only when no continuation of *)
(* a settled promise (a microtask) is waiting; continuations run in the    *)
(* order in which they were registered.                                   *)
(***************************************************************************)
EXTENDS Integers, Sequences, FiniteSets, TLC

\* ------------------------------------------------------------------ bounds
\* Render calls issued in one behaviour.
MaxCalls == 3
\* Calls of a generator function made on its own in one behaviour.
MaxUnitCalls == 3

\* ------------------------------------------------------------- the domains
\* BOKEH_URLS.core and PLUGIN_URLS.  The five plugin URLs are handled
\* alike by the code (one loadScriptOnce each inside one Promise.all); two
\* of them are kept.
CoreUrl == "core"
PLUGIN_URLS == {"widgets", "tables"}
BOKEH_URLS == {CoreUrl} \cup PLUGIN_URLS

\* Host elements (the parentElement of a component instance).
Hosts == {"h1", "h2"}

CallIds == 1..MaxCalls

\* parentElement.clientWidth.
ClientWidths == {0, 600, 1200}

\* ---------------------------------------------------------------- values
\* window.Bokeh.Themes: the names of the library's built-in themes.
BokehThemes == {"caliber", "dark_minimal", "light_minimal", "contrast", "night_sky"}

\* Host snapshots: the four CSS custom properties read from the container.
LightSnapshot ==
    [backgroundColor |-> "#ffffff", secondaryBackgroundColor |-> "#f0f2f6",
     textColor |-> "#31333f", font |-> "sans-serif"]
DarkSnapshot ==
    [backgroundColor |-> "#0e1117", secondaryBackgroundColor |-> "#262730",
     textColor |-> "#fafafa", font |-> "sans-serif"]
Snapshots == {LightSnapshot, DarkSnapshot}

\* JSON.stringify of a snapshot: the values in the order of the keys.
stringify(t) ==
    <<t.backgroundColor, t.secondaryBackgroundColor, t.textColor, t.font>>

\* Serialized chart definitions.  FigA and FigA2 differ as strings (white
\* space) and parse to equal values; FigB carries no width and no height;
\* FigBad is not JSON.
FigA == "{\"doc\":{\"roots\":[{\"id\":\"A\",\"attributes\":{\"width\":800,\"height\":400}}]}}"
FigA2 == "{ \"doc\":{\"roots\":[{\"id\":\"A\",\"attributes\":{\"width\":800,\"height\":400}}]}}"
FigB == "{\"doc\":{\"roots\":[{\"id\":\"B\",\"attributes\":{}}]}}"
FigBad == "{\"doc\":"
Figures == {FigA, FigA2, FigB, FigBad}

\* The value null of savedFigure and currentTheme, and of appTheme.
Null == "null"
NullApp == <<>>
\* The value null of savedChartData.
NullData == [isNull |-> TRUE]

\* JavaScript numbers, as far as the arithmetic of index.ts produces them from
\* sizes that are not negative: a finite value num/den in lowest terms,
\* Infinity (x / 0 for x > 0) and NaN (0 / 0, Infinity * 0).  The rounding of
\* the 64-bit floating-point format is not modelled.
RECURSIVE gcd(_, _)
gcd(a, b) == IF b = 0 THEN a ELSE gcd(b, a % b)
Frac(n, d) ==
    LET g == gcd(n, d) IN [kind |-> "finite", num |-> n \div g, den |-> d \div g]
Number(n) == [kind |-> "finite", num |-> n, den |-> 1]
Infinity == [kind |-> "Infinity", num |-> 0, den |-> 1]
NaN == [kind |-> "NaN", num |-> 0, den |-> 1]
\* a / b
Divide(a, b) ==
    CASE a.kind = "NaN" \/ b.kind = "NaN" -> NaN
      [] a.kind = "Infinity" -> IF b.kind = "Infinity" THEN NaN ELSE Infinity
      [] b.kind = "Infinity" -> Number(0)
      [] b.num = 0 -> IF a.num = 0 THEN NaN ELSE Infinity
      [] OTHER -> Frac(a.num * b.den, a.den * b.num)
\* a * b
Times(a, b) ==
    CASE a.kind = "NaN" \/ b.kind = "NaN" -> NaN
      [] a.kind = "Infinity" -> IF b.kind = "finite" /\ b.num = 0 THEN NaN ELSE Infinity
      [] b.kind = "Infinity" -> IF a.num = 0 THEN NaN ELSE Infinity
      [] OTHER -> Frac(a.num * b.num, a.den * b.den)
\* a > 0
Positive(a) == a.kind = "Infinity" \/ (a.kind = "finite" /\ a.num > 0)

\* JSON.parse: ok = FALSE stands for the SyntaxError it throws.
Parseable(figure) == figure \in {FigA, FigA2, FigB}
\* A parsed definition: the id of doc.roots[0] and its attributes; has is the
\* set of the attributes present, an absent one is written 0.
JSONparse(figure) ==
    CASE figure \in {FigA, FigA2} ->
           [isNull |-> FALSE, id |-> "A",
            attributes |-> [has |-> {"width", "height"},
                           width |-> Number(800), height |-> Number(400)]]
      [] figure = FigB ->
           [isNull |-> FALSE, id |-> "B",
            attributes |-> [has |-> {}, width |-> Number(0), height |-> Number(0)]]
      [] OTHER -> NullData

\* ------------------------------------------------------------------ state
VARIABLES
    \* loaders.ts, module scope and the page
    scriptLoadPromises, \* URL -> "none" (no entry) | "pending" | "resolved" | "rejected"
    bokehLoadPromise,   \* "null" | "awaitCore" | "polling" | "resolved" | "rejected"
    done,               \* URL -> the done flag of the promise created for it
    appended,           \* URL -> script elements appended to document.head by the loader
    setCalls,           \* URL -> calls scriptLoadPromises.set(URL, ..) made so far
    scriptEl,           \* URL -> "absent" | "fetching" | "loaded" | "complete" | "failed"
    dataLoaded,         \* URL -> the element carries data-loaded="true"
    windowBokeh,        \* window.Bokeh is defined
    settled,            \* URL -> how often resolve() or reject() ran for its promise
    \* index.ts, module scope and the page
    componentState,     \* host -> the id of its state record, 0 = no entry
    objs,               \* id -> state record (initialized and the two memos)
    calls,              \* call id -> the render call
    issued,             \* render calls issued so far
    container,          \* host -> the root holds an element .stBokehContainer
    mount,              \* host -> elements with id = key in the container
    children,           \* host -> child nodes of the mount point, in order
    usedTheme,          \* the theme last given to use_theme (page-global)
    useThemeCalls,      \* calls of use_theme so far
    last,               \* what the latest step of a render call did
    unit,               \* a pair of generator functions called on their own
    entry               \* the entry point of index.ts as it was before loaders.ts

loaderVars ==
    <<scriptLoadPromises, bokehLoadPromise, done, appended, setCalls, scriptEl, dataLoaded,
      windowBokeh, settled>>
renderVars ==
    <<componentState, objs, calls, issued, container, mount, children, usedTheme,
      useThemeCalls, last, unit, entry>>
vars == <<loaderVars, renderVars>>

\* ------------------------------------------------------------ loaders.ts
\* loadScriptOnce, line 82-83: a promise is cached for src.
\* (CachedUnlessRejected: a cache that does not hand out a rejected promise.)
CachedUnlessRejected(src) == scriptLoadPromises[src] \in {"pending", "resolved"}
Cached(src) == scriptLoadPromises[src] # "none"

\* findScriptBySrc: an element with this src is in the document.
findScriptBySrc(src) == scriptEl[src] # "absent"

\* loadScriptOnce, line 86: existing && existing.dataset.loaded === "true".
ExistingLoaded(src) == findScriptBySrc(src) /\ dataLoaded[src]

\* loadScriptOnce(src): the promise it returns, ...
loadScriptOnce(src) ==
    IF Cached(src) THEN scriptLoadPromises[src]
    ELSE IF ExistingLoaded(src) THEN "resolved"
    ELSE "pending"

\* ... whether it appends a new script element (line 93-99), ...
\* (AppendsAlways: a loader without the cache of line 82-83 and without the
\* reuse of an element found in the document.)
AppendsAlways(src) == ~ExistingLoaded(src)
Appends(src) == ~Cached(src) /\ ~ExistingLoaded(src) /\ ~findScriptBySrc(src)

\* ... whether it creates a promise with listeners and a timer (line 92), ...
Creates(src) == ~Cached(src) /\ ~ExistingLoaded(src)

\* ... and whether it calls scriptLoadPromises.set(src, ..) (line 88, 131).
Sets(src) == ~Cached(src)

\* The listeners and the timeout of src are armed: the promise was created by
\* the executor of line 92 and cleanup() has not run.
Listening(src) == scriptLoadPromises[src] = "pending" /\ ~done[src]

\* The continuation of the async function of ensureBokehCoreLoaded (line
\* 139-156) once loadScriptOnce(coreUrl) has settled as p, window.Bokeh
\* being wb: a rejection propagates; tick() resolves at once or polls.
\* (CoreContinuationNoPoll: the same without the check of line 142.)
CoreContinuationNoPoll(p, wb) ==
    IF bokehLoadPromise # "awaitCore" THEN bokehLoadPromise
    ELSE CASE p = "rejected" -> "rejected"
           [] p = "resolved" -> "resolved"
           [] OTHER -> "awaitCore"
CoreContinuation(p, wb) ==
    IF bokehLoadPromise # "awaitCore" THEN bokehLoadPromise
    ELSE CASE p = "rejected" -> "rejected"
           [] p = "resolved" -> IF wb THEN "resolved" ELSE "polling"
           [] OTHER -> "awaitCore"

\* ------------------------------------------------------- streamlit-theme.ts
\* The values of the attributes of a theme: strings and numbers; Undefined
\* is the value undefined.
Str(s) == [type |-> "string", s |-> s, n |-> Number(0)]
Num(n) == [type |-> "number", s |-> "", n |-> n]
Undefined == [type |-> "undefined", s |-> "", n |-> Number(0)]

\* transparentize(color, 0.8) of color2k: the colour with its alpha lowered
\* by 0.8, written by the colour and the alpha left, in percent.
transparentize80(color) == "rgba(" \o color \o ", 20%)"

\* The font families of the theme map are the literal of the source (line
\* 87, 94, 106, 117, 124, 135), not the host's font token.
\* (fontFamilyOfHost: the font token of the theme given.)
SourceSansPro == "\"Source Sans Pro\", sans-serif"
fontFamilyOfHost(theme) == theme.font
fontFamily(theme) == SourceSansPro

\* The object given to new BokehTheme by streamlitTheme (line 63-138):
\* object type -> attribute -> value.
streamlitThemeAttrs(theme) ==
    LET backgroundColor == theme.backgroundColor
        secondaryBackgroundColor == theme.secondaryBackgroundColor
        textColor == theme.textColor
        fadedText10 == transparentize80(textColor)
    IN
    [Plot |->
       [background_fill_color |-> Str(backgroundColor),
        border_fill_color |-> Str(backgroundColor),
        outline_line_color |-> Str("transparent"),
        outline_line_alpha |-> Num(Frac(25, 100))],
     Grid |->
       [grid_line_color |-> Str(fadedText10),
        grid_line_alpha |-> Num(Frac(5, 10))],
     Axis |->
       [major_tick_line_alpha |-> Num(Number(0)),
        major_tick_line_color |-> Str(textColor),
        minor_tick_line_alpha |-> Num(Number(0)),
        minor_tick_line_color |-> Str(textColor),
        axis_line_alpha |-> Num(Number(0)),
        axis_line_color |-> Str(textColor),
        major_label_text_color |-> Str(textColor),
        major_label_text_font |-> Str(fontFamily(theme)),
        major_label_text_font_size |-> Str("1em"),
        axis_label_standoff |-> Num(Number(10)),
        axis_label_text_color |-> Str(textColor),
        axis_label_text_font |-> Str(fontFamily(theme)),
        axis_label_text_font_size |-> Str("1em"),
        axis_label_text_font_style |-> Str("normal")],
     Legend |->
       [spacing |-> Num(Number(8)),
        glyph_width |-> Num(Number(15)),
        label_standoff |-> Num(Number(8)),
        label_text_color |-> Str(textColor),
        label_text_font |-> Str(fontFamily(theme)),
        label_text_font_size |-> Str("1.025em"),
        border_line_alpha |-> Num(Number(0)),
        background_fill_alpha |-> Num(Frac(25, 100)),
        background_fill_color |-> Str(fadedText10)],
     BaseColorBar |->
       [title_text_color |-> Str(textColor),
        title_text_font |-> Str(fontFamily(theme)),
        title_text_font_size |-> Str("1.025em"),
        title_text_font_style |-> Str("normal"),
        major_label_text_color |-> Str(textColor),
        major_label_text_font |-> Str(fontFamily(theme)),
        major_label_text_font_size |-> Str("1.025em"),
        background_fill_color |-> Str(secondaryBackgroundColor),
        major_tick_line_alpha |-> Num(Number(0)),
        bar_line_alpha |-> Num(Number(0))],
     Title |->
       [text_color |-> Str(textColor),
        text_font |-> Str(fontFamily(theme)),
        text_font_size |-> Str("1.15em")]]

\* Object.keys(this.attrs), in the order of insertion.
ThemeKeys == <<"Plot", "Grid", "Axis", "Legend", "BaseColorBar", "Title">>

\* BokehTheme.get(obj, attr) (line 35-56) of a theme with these attrs.
\* models is the set of the names for which window.Bokeh.Models?.[key] is a
\* class; obj is given by the set of the class names it is an instance of.
\* instanceof throws a TypeError when its right-hand side is undefined.
\* (ClassGuardNone: line 44 without the test of BokehModel.)
ClassGuardNone(found) == TRUE
ClassGuard(found) == found
RECURSIVE typeOf(_, _, _, _)
typeOf(models, obj, i, type) ==
    IF i > Len(ThemeKeys) THEN [threw |-> FALSE, type |-> type]
    ELSE LET key == ThemeKeys[i] IN
         IF ClassGuard(key \in models)
         THEN IF key \notin models
              THEN [threw |-> TRUE, type |-> type]
              ELSE typeOf(models, obj, i + 1, IF key \in obj THEN key ELSE type)
         ELSE typeOf(models, obj, i + 1, type)
get(attrs, models, obj, attr) ==
    LET t == typeOf(models, obj, 1, Null) IN
    IF t.threw THEN [threw |-> TRUE, value |-> Undefined]
    ELSE IF t.type = Null THEN [threw |-> FALSE, value |-> Undefined]
    ELSE LET attrsForType == attrs[t.type] IN
         [threw |-> FALSE,
          value |-> IF attr \in DOMAIN attrsForType THEN attrsForType[attr]
                    ELSE Undefined]

\* streamlitTheme(theme): the theme object, written by the tokens that
\* tell two such objects apart.
streamlitTheme(theme) ==
    LET attrs == streamlitThemeAttrs(theme) IN
    [name |-> "streamlit",
     background_fill_color |-> attrs.Plot.background_fill_color.s,
     colorbar_fill_color |-> attrs.BaseColorBar.background_fill_color.s,
     text_color |-> attrs.Title.text_color.s,
     text_font |-> attrs.Title.text_font.s]

\* window.Bokeh.Themes[name]: a built-in theme of the library.
BuiltinTheme(name) ==
    [name |-> name, background_fill_color |-> "", colorbar_fill_color |-> "",
     text_color |-> "", text_font |-> ""]

\* No theme was given to use_theme yet.
NoTheme == BuiltinTheme(Null)

\* ------------------------------------------------------------- index.ts
DEFAULT_WIDTH == 400
DEFAULT_HEIGHT == 350

\* The state record created by getOrCreateInstanceState (line 203-207):
\* initialized and the closure variables of the two generators.
\* prevArgs, prevChecked and prevError are history, not program state: the
\* figure, theme name and serialized snapshot of the render call that last
\* ended or reached the checks on this record (<<>> before the first),
\* whether that call evaluated both checks, and the error it threw.
FreshState ==
    [initialized |-> FALSE,
     savedFigure |-> Null, savedChartData |-> NullData,
     currentTheme |-> Null, appTheme |-> NullApp,
     prevArgs |-> <<>>, prevChecked |-> FALSE, prevError |-> "none"]

\* The function returned by getChartDataGenerator, applied to figure with the
\* closure variables of memo: the closure variables afterwards, whether
\* JSON.parse threw, and the result returned otherwise.  savedFigure is
\* assigned before JSON.parse runs (line 51-52).
\* (DataCheckAlways: no memo; DataCheckByValue: a memo keyed by the parsed
\* value; DataCheckSkipFirst: a memo that takes null for a match.)
DataCheckSkipFirst(memo, figure) ==
    memo.savedFigure # Null /\ figure # memo.savedFigure
DataCheckAlways(memo, figure) == TRUE
DataCheckByValue(memo, figure) ==
    ~Parseable(figure) \/ JSONparse(figure) # memo.savedChartData
DataCheckTest(memo, figure) == figure # memo.savedFigure
getChartData(memo, figure) ==
    IF DataCheckTest(memo, figure)
    THEN IF Parseable(figure)
         THEN [savedFigure |-> figure, savedChartData |-> JSONparse(figure),
               threw |-> FALSE, data |-> JSONparse(figure), hasChanged |-> TRUE]
         ELSE [savedFigure |-> figure, savedChartData |-> memo.savedChartData,
               threw |-> TRUE, data |-> NullData, hasChanged |-> FALSE]
    ELSE [savedFigure |-> memo.savedFigure, savedChartData |-> memo.savedChartData,
          threw |-> FALSE, data |-> memo.savedChartData, hasChanged |-> FALSE]

\* The function returned by setChartThemeGenerator, applied to (newTheme,
\* newAppTheme) with the closure variables of memo: the closure variables
\* afterwards, the value returned, and the theme given to use_theme if any.
\* (ThemeCheckAnySnapshot: a test that compares the snapshot under every
\* name.  ThemeCheckAlways: no memo.)
ThemeCheckAlways(memo, newTheme, renderedAppTheme) == TRUE
ThemeCheckAnySnapshot(memo, newTheme, renderedAppTheme) ==
    \/ newTheme # memo.currentTheme
    \/ memo.appTheme # renderedAppTheme
ThemeCheckTest(memo, newTheme, renderedAppTheme) ==
    \/ newTheme # memo.currentTheme
    \/ (memo.currentTheme = "streamlit" /\ memo.appTheme # renderedAppTheme)
setChartTheme(memo, newTheme, newAppTheme) ==
    LET renderedAppTheme == stringify(newAppTheme) IN
    IF ThemeCheckTest(memo, newTheme, renderedAppTheme)
    THEN IF newTheme = "streamlit" \/ newTheme \notin BokehThemes
         THEN [currentTheme |-> newTheme, appTheme |-> renderedAppTheme,
               themeChanged |-> TRUE, useTheme |-> TRUE,
               theme |-> streamlitTheme(newAppTheme)]
         ELSE [currentTheme |-> newTheme, appTheme |-> renderedAppTheme,
               themeChanged |-> FALSE, useTheme |-> TRUE,
               theme |-> BuiltinTheme(newTheme)]
    ELSE [currentTheme |-> memo.currentTheme, appTheme |-> memo.appTheme,
          themeChanged |-> FALSE, useTheme |-> FALSE, theme |-> NoTheme]

\* plot.attributes.width ?? DEFAULT_WIDTH and plot.attributes.height ??
\* DEFAULT_HEIGHT (line 101-102): ?? replaces an absent attribute only, a
\* width of 0 is kept.
originalWidth(attributes) ==
    IF "width" \in attributes.has THEN attributes.width ELSE Number(DEFAULT_WIDTH)
originalHeight(attributes) ==
    IF "height" \in attributes.has THEN attributes.height ELSE Number(DEFAULT_HEIGHT)

\* The height of line 111: (width / originalWidth) * originalHeight.
ScaledHeight(width, ow, oh) == Times(Divide(width, ow), oh)

\* getChartDimensions(plot, useContainerWidth, parentElement), clientWidth
\* being parentElement.clientWidth.
\* (FitAlways: the function without the test of line 107.)
FitAlways(useContainerWidth) == TRUE
FitRequested(useContainerWidth) == useContainerWidth
getChartDimensions(attributes, useContainerWidth, clientWidth) ==
    IF FitRequested(useContainerWidth)
    THEN [width |-> Number(clientWidth),
          height |-> ScaledHeight(Number(clientWidth), originalWidth(attributes),
                                  originalHeight(attributes))]
    ELSE [width |-> originalWidth(attributes), height |-> originalHeight(attributes)]

\* updateChart, line 148 and 151: the computed value is written onto the
\* attributes.
WritesDimension(value) == Positive(value)

\* updateChart, line 139-154: the object data after the dimensions have been
\* written onto doc.roots[0].attributes (no plot when data is null).
PatchDimensions(data, useContainerWidth, clientWidth) ==
    IF data.isNull THEN data
    ELSE LET dim == getChartDimensions(data.attributes, useContainerWidth, clientWidth)
             a == data.attributes
             withW == IF WritesDimension(dim.width)
                      THEN [a EXCEPT !.has = @ \cup {"width"}, !.width = dim.width]
                      ELSE a
             withH == IF WritesDimension(dim.height)
                      THEN [withW EXCEPT !.has = @ \cup {"height"}, !.height = dim.height]
                      ELSE withW
         IN  [data EXCEPT !.attributes = withH]

\* The functions returned by getChartDataGenerator() and
\* setChartThemeGenerator(), called directly as index.test.ts calls them.
\* memo holds their closure variables; gen counts the objects JSON.parse
\* has returned into savedChartData (the identity of the cached object, 0
\* for null); touched tells that the caller has written onto the cached
\* object since the last data check, as updateChart does; n counts the
\* calls; call and prev are the latest call and the one before it of the
\* function called last.  twin holds the closure variables of a second pair
\* of generators, called side by side with the first.
NoCall == [op |-> "none"]
FreshUnit ==
    [memo |-> FreshState, twin |-> FreshState, gen |-> 0, touched |-> FALSE,
     n |-> 0, call |-> NoCall, prev |-> NoCall]

\* A render call of bokehComponent.  pc is where it stands: "idle" (not
\* issued), "awaitCore" (line 196 of loaders.ts), "awaitPlugins" (line 199),
\* "awaitEmbed" (line 158 of index.ts), "done" (returned its teardown
\* callback), "failed" (threw; error names the throw).  obj is the state
\* record it got at line 230; core tells whether ensureBokehCoreLoaded
\* returned at line 136 ("returned") or handed out bokehLoadPromise
\* ("shared").  figure .. clientWidth are the arguments and embedData the
\* object handed to embed_item; they are reset once they are dead.
\* tornDown is history: the teardown callback the call returned has been
\* invoked.
IdleCall ==
    [pc |-> "idle", host |-> "none", figure |-> Null, theme |-> Null,
     snapshot |-> LightSnapshot, useContainerWidth |-> FALSE, clientWidth |-> 0,
     obj |-> 0, core |-> "none", error |-> "none", embedData |-> NullData,
     tornDown |-> FALSE]

\* The record of a call whose arguments are dead (line 270 is passed).
Finished(r) ==
    [r EXCEPT !.figure = Null, !.theme = Null, !.snapshot = LightSnapshot,
              !.useContainerWidth = FALSE, !.clientWidth = 0]

\* What the latest step of a render call did (history, not program state):
\* call (its id), reused (a load it awaits is a promise that was already
\* rejected), loadResolved (its loadBokehGlobally resolved in this step),
\* ran (it ran line 241 and on), checked (it evaluated both checks),
\* hasChanged and themeChanged (their results), usedTheme (it called
\* use_theme), cleared and embedded (it removed the children of the mount
\* point, it called embed_item), args (its figure, theme name and serialized
\* snapshot), fit (its use_container_width), samePrev (args equal those of the call that ran before it on
\* the state record), prevChecked (that call evaluated both checks),
\* prevError (the error that call threw), error (the error this step threw),
\* order (the operations of line 254-271 and 156-158 it evaluated, in the
\* order of their evaluation), raced (the host whose teardown callback was
\* invoked since this step while a call of that host was suspended, "none"
\* if there is none).
NoStep ==
    [call |-> 0, reused |-> FALSE, loadResolved |-> FALSE, ran |-> FALSE,
     checked |-> FALSE, hasChanged |-> FALSE, themeChanged |-> FALSE,
     usedTheme |-> FALSE, cleared |-> FALSE, embedded |-> FALSE,
     args |-> <<>>, fit |-> FALSE, samePrev |-> FALSE, prevChecked |-> FALSE,
     prevError |-> "none", error |-> "none", order |-> <<>>, raced |-> "none"]

Args(r) == <<r.figure, r.theme, stringify(r.snapshot)>>

\* A continuation is ready to run: the promise the call awaits has settled.
\* Promise.all settles when every plugin promise resolved or one rejected.
PluginsSettled ==
    \/ \A p \in PLUGIN_URLS : scriptLoadPromises[p] = "resolved"
    \/ \E p \in PLUGIN_URLS : scriptLoadPromises[p] = "rejected"
Runnable(c) ==
    \/ /\ calls[c].pc = "awaitCore"
       /\ \/ calls[c].core = "returned"
          \/ bokehLoadPromise \in {"resolved", "rejected"}
    \/ /\ calls[c].pc = "awaitPlugins"
       /\ PluginsSettled
NoMicrotasks == \A c \in CallIds : ~Runnable(c)
\* Continuations run in the order of their registration.
First(c) == Runnable(c) /\ \A d \in CallIds : d < c => ~Runnable(d)

\* The state records that are still reachable when the calls are cs and the
\* WeakMap is m: those of the map and those held by a suspended call.  The
\* others are garbage and are reset.
Live(cs, m) ==
    {m[h] : h \in Hosts} \cup
    {cs[c].obj : c \in {d \in CallIds : cs[d].pc \in {"awaitCore", "awaitPlugins", "awaitEmbed"}}}
Collect(os, cs, m) ==
    [i \in CallIds |-> IF i \in Live(cs, m) THEN os[i] ELSE FreshState]

\* The calls of loadScriptOnce(src) for the src of U, made in one run.
Request(U) ==
    /\ scriptLoadPromises' =
         [u \in BOKEH_URLS |-> IF u \in U THEN loadScriptOnce(u) ELSE scriptLoadPromises[u]]
    /\ appended' =
         [u \in BOKEH_URLS |-> IF u \in U /\ Appends(u) THEN appended[u] + 1 ELSE appended[u]]
    /\ setCalls' =
         [u \in BOKEH_URLS |-> IF u \in U /\ Sets(u) THEN setCalls[u] + 1 ELSE setCalls[u]]
    /\ scriptEl' =
         [u \in BOKEH_URLS |-> IF u \in U /\ Appends(u) THEN "fetching" ELSE scriptEl[u]]
    /\ done' =
         [u \in BOKEH_URLS |-> IF u \in U /\ Creates(u) THEN FALSE ELSE done[u]]

\* The test of line 269.
\* (RerenderTestDataOnly: the test without themeChanged.)
RerenderTestDataOnly(hasChanged, themeChanged) == hasChanged
RerenderTest(hasChanged, themeChanged) == hasChanged \/ themeChanged

\* Line 241-244: parentElement.querySelector(".stBokehContainer") finds an
\* element.  (ContainerAssumed: the code without the test of line 244.)
ContainerAssumed(h) == TRUE
ContainerFound(h) == container[h]

\* getOrCreateChart(container, key), line 169-183, n being the number of
\* elements with id key in the container: their number afterwards.
\* (getOrCreateChartAlways: the function without the lookup of line 173.)
getOrCreateChartAlways(n) == n + 1
getOrCreateChart(n) == IF n = 0 THEN 1 ELSE n

\* Line 254-263: setChartTheme(..) is a statement of its own and is
\* evaluated whatever getChartData returned.
\* (ThemeCheckUnlessChanged: hasChanged || setChartTheme(..).)
ThemeCheckUnlessChanged(hasChanged) == ~hasChanged
ThemeCheckEvaluated(hasChanged) == TRUE

\* bokehComponent from line 241 to its end, run by call c (record r) on the
\* state record o with id oid: the container lookup, getOrCreateChart, the
\* two checks, and updateChart up to the await of embed_item.  st is the
\* record of the step so far.
RenderSync(c, r, oid, o, st) ==
    LET h == r.host
        r1 == Finished(r)
        st1 == [st EXCEPT !.call = c, !.ran = TRUE, !.args = Args(r),
                          !.fit = r.useContainerWidth,
                          !.samePrev = (Args(r) = o.prevArgs),
                          !.prevChecked = o.prevChecked,
                          !.prevError = o.prevError]
        d == getChartData(o, r.figure)
        o1 == [o EXCEPT !.savedFigure = d.savedFigure,
                        !.savedChartData = d.savedChartData,
                        !.prevArgs = Args(r), !.prevChecked = FALSE,
                        !.prevError = IF d.threw THEN "parse" ELSE "none"]
        t == IF ThemeCheckEvaluated(d.hasChanged)
             THEN setChartTheme(o1, r.theme, r.snapshot)
             ELSE [currentTheme |-> o1.currentTheme, appTheme |-> o1.appTheme,
                   themeChanged |-> FALSE, useTheme |-> FALSE, theme |-> NoTheme]
        o2 == [o1 EXCEPT !.currentTheme = t.currentTheme, !.appTheme = t.appTheme,
                         !.prevChecked = TRUE]
        st2 == [st1 EXCEPT !.checked = ThemeCheckEvaluated(d.hasChanged),
                           !.hasChanged = d.hasChanged,
                           !.themeChanged = t.themeChanged, !.usedTheme = t.useTheme,
                           !.order = <<"getChartData">> \o
                                     (IF ThemeCheckEvaluated(d.hasChanged)
                                      THEN <<"setChartTheme">> ELSE <<>>) \o
                                     (IF t.useTheme THEN <<"use_theme">> ELSE <<>>)]
        \* updateChart writes the dimensions onto the cached object itself
        patched == PatchDimensions(d.data, r.useContainerWidth, r.clientWidth)
        o3 == [o2 EXCEPT !.savedChartData =
                   IF d.data.isNull THEN o2.savedChartData ELSE patched]
    IN
    IF ~ContainerFound(h)
    THEN \* line 244-246: throw new Error("Container not found")
         /\ calls' = [calls EXCEPT ![c] = [r1 EXCEPT !.pc = "failed", !.error = "container"]]
         /\ objs' = Collect([objs EXCEPT ![oid] =
                               [o EXCEPT !.prevArgs = Args(r), !.prevChecked = FALSE,
                                         !.prevError = "container"]],
                            calls', componentState')
         /\ last' = [st1 EXCEPT !.error = "container"]
         /\ UNCHANGED <<mount, children, usedTheme, useThemeCalls>>
    ELSE
      \* getOrCreateChart, line 173-182
      /\ mount' = [mount EXCEPT ![h] = getOrCreateChart(mount[h])]
      /\ IF d.threw
         THEN \* JSON.parse threw inside getChartData
              /\ calls' = [calls EXCEPT ![c] = [r1 EXCEPT !.pc = "failed", !.error = "parse"]]
              /\ objs' = Collect([objs EXCEPT ![oid] = o1], calls', componentState')
              /\ last' = [st1 EXCEPT !.error = "parse", !.order = <<"getChartData">>]
              /\ UNCHANGED <<children, usedTheme, useThemeCalls>>
         ELSE
           /\ usedTheme' = IF t.useTheme THEN t.theme ELSE usedTheme
           /\ useThemeCalls' = IF t.useTheme THEN useThemeCalls + 1 ELSE useThemeCalls
           /\ IF RerenderTest(d.hasChanged, t.themeChanged)
              THEN \* updateChart: removeAllChildNodes(chart), then embed_item
                   /\ calls' = [calls EXCEPT ![c] =
                        [r1 EXCEPT !.pc = "awaitEmbed", !.embedData = patched]]
                   /\ objs' = Collect([objs EXCEPT ![oid] = o3], calls', componentState')
                   /\ last' = [st2 EXCEPT !.cleared = TRUE, !.embedded = TRUE,
                                           !.order = @ \o <<"removeAllChildNodes",
                                                            "embed_item">>]
                   /\ children' = [children EXCEPT ![h] = <<>>]
              ELSE /\ calls' = [calls EXCEPT ![c] = [r1 EXCEPT !.pc = "done"]]
                   /\ objs' = Collect([objs EXCEPT ![oid] = o2], calls', componentState')
                   /\ last' = st2
                   /\ UNCHANGED children

\* The await of line 233 throws in call c: the render call fails and line
\* 234 is not reached.
FailLoad(c, st) ==
    /\ calls' = [calls EXCEPT ![c] =
         [Finished(calls[c]) EXCEPT !.pc = "failed", !.error = "load"]]
    /\ objs' = Collect([objs EXCEPT ![calls[c].obj] =
                          [@ EXCEPT !.prevArgs = Args(calls[c]), !.prevChecked = FALSE,
                                    !.prevError = "load"]],
                       calls', componentState')
    /\ last' = [st EXCEPT !.call = c, !.args = Args(calls[c]), !.error = "load",
                          !.prevError = objs[calls[c].obj].prevError]
    /\ UNCHANGED <<mount, children, usedTheme, useThemeCalls>>

\* getOrCreateInstanceState(host), called by call c: the id of the state
\* record of host h, a new record (named after the call) if the map has none.
\* (getOrCreateSharedState: one record for the page, whatever the host.)
getOrCreateSharedState(h, c) ==
    IF \E g \in Hosts : componentState[g] # 0
    THEN componentState[CHOOSE g \in Hosts : componentState[g] # 0]
    ELSE c
getOrCreateInstanceState(h, c) ==
    IF componentState[h] = 0 THEN c ELSE componentState[h]

\* ---------------------------------------------------------------- actions
\* The host calls bokehComponent(component) for host h (line 222-277).
Render(h, figure, theme, snapshot, useContainerWidth, clientWidth) ==
    /\ NoMicrotasks
    /\ issued < MaxCalls
    /\ LET c == issued + 1
           oid == getOrCreateInstanceState(h, c)
           o == IF oid = c THEN FreshState ELSE objs[oid]
           r == [IdleCall EXCEPT !.host = h, !.figure = figure, !.theme = theme,
                                 !.snapshot = snapshot,
                                 !.useContainerWidth = useContainerWidth,
                                 !.clientWidth = clientWidth, !.obj = oid]
           st == [NoStep EXCEPT !.call = c, !.args = Args(r), !.prevError = o.prevError]
       IN
       /\ issued' = c
       /\ componentState' = [componentState EXCEPT ![h] = oid]
       /\ UNCHANGED <<container, dataLoaded, windowBokeh, settled, unit, entry>>
       /\ IF o.initialized
          THEN /\ RenderSync(c, r, oid, o, st)
               /\ UNCHANGED <<scriptLoadPromises, bokehLoadPromise, done, appended, setCalls, scriptEl>>
          ELSE \* await loadBokehGlobally(): ensureBokehCoreLoaded(core)
               /\ objs' = [objs EXCEPT ![oid] = o]
               /\ UNCHANGED <<mount, children, usedTheme, useThemeCalls>>
               /\ IF windowBokeh
                  THEN \* line 136
                       /\ calls' = [calls EXCEPT ![c] =
                            [r EXCEPT !.pc = "awaitCore", !.core = "returned"]]
                       /\ last' = st
                       /\ UNCHANGED <<scriptLoadPromises, bokehLoadPromise, done,
                                      appended, setCalls, scriptEl>>
                  ELSE IF bokehLoadPromise # "null"
                  THEN \* line 137
                       /\ calls' = [calls EXCEPT ![c] =
                            [r EXCEPT !.pc = "awaitCore", !.core = "shared"]]
                       /\ last' = [st EXCEPT !.reused = (bokehLoadPromise = "rejected")]
                       /\ UNCHANGED <<scriptLoadPromises, bokehLoadPromise, done,
                                      appended, setCalls, scriptEl>>
                  ELSE \* line 139-158
                       /\ calls' = [calls EXCEPT ![c] =
                            [r EXCEPT !.pc = "awaitCore", !.core = "shared"]]
                       /\ last' = [st EXCEPT !.reused = (scriptLoadPromises[CoreUrl] = "rejected")]
                       /\ Request({CoreUrl})
                       /\ bokehLoadPromise' =
                            CASE loadScriptOnce(CoreUrl) = "rejected" -> "rejected"
                              [] loadScriptOnce(CoreUrl) = "resolved" -> "polling"
                              [] OTHER -> "awaitCore"

\* The continuation of loadBokehGlobally after line 196.
ResumeCore(c) ==
    /\ First(c)
    /\ calls[c].pc = "awaitCore"
    /\ UNCHANGED <<componentState, issued, container, dataLoaded, windowBokeh,
                   settled, bokehLoadPromise, unit, entry>>
    /\ IF calls[c].core = "shared" /\ bokehLoadPromise = "rejected"
       THEN /\ FailLoad(c, NoStep)
            /\ UNCHANGED <<scriptLoadPromises, done, appended, setCalls, scriptEl>>
       ELSE \* line 199: PLUGIN_URLS.map(url => loadScriptOnce(url, 10000))
            /\ Request(PLUGIN_URLS)
            /\ calls' = [calls EXCEPT ![c].pc = "awaitPlugins"]
            /\ last' = [NoStep EXCEPT
                 !.call = c, !.args = Args(calls[c]),
                 !.prevError = objs[calls[c].obj].prevError,
                 !.reused = \E p \in PLUGIN_URLS : scriptLoadPromises[p] = "rejected"]
            /\ UNCHANGED <<objs, mount, children, usedTheme, useThemeCalls>>

\* Line 234, state.initialized = true: it runs when the await of line 233
\* is over, the promise of loadBokehGlobally having settled as outcome.
\* (InitializedAlways: the assignment placed before the await.)
InitializedAlways(outcome) == TRUE
InitializedAt(outcome) == outcome = "resolved"

\* Line 233-235: the continuation of a call on host h that holds the record
\* oid writes initialized onto that record; the map is not written.
\* (MapReinserted: a continuation that puts its record back into the map.)
MapReinserted(h, oid) == [componentState EXCEPT ![h] = oid]
MapAfterAwait(h, oid) == componentState

\* The continuation of bokehComponent after line 233.
ResumePlugins(c) ==
    /\ First(c)
    /\ calls[c].pc = "awaitPlugins"
    /\ componentState' = MapAfterAwait(calls[c].host, calls[c].obj)
    /\ UNCHANGED <<issued, container, unit, entry, loaderVars>>
    /\ LET outcome == IF \E p \in PLUGIN_URLS : scriptLoadPromises[p] = "rejected"
                      THEN "rejected" ELSE "resolved"
           oid == calls[c].obj
           o == [objs[oid] EXCEPT !.initialized = @ \/ InitializedAt(outcome)]
       IN  IF outcome = "rejected"
           THEN /\ calls' = [calls EXCEPT ![c] =
                     [Finished(calls[c]) EXCEPT !.pc = "failed", !.error = "load"]]
                /\ objs' = Collect([objs EXCEPT ![oid] =
                                      [o EXCEPT !.prevArgs = Args(calls[c]),
                                                !.prevChecked = FALSE,
                                                !.prevError = "load"]],
                                   calls', componentState')
                /\ last' = [NoStep EXCEPT !.call = c, !.args = Args(calls[c]),
                                          !.prevError = objs[oid].prevError,
                                          !.error = "load"]
                /\ UNCHANGED <<mount, children, usedTheme, useThemeCalls>>
           ELSE RenderSync(c, calls[c], oid, o, [NoStep EXCEPT !.loadResolved = TRUE])

\* Bokeh.embed.embed_item of call c completes: the rendering is in the mount
\* point and bokehComponent returns the teardown callback.
EmbedDone(c) ==
    /\ NoMicrotasks
    /\ calls[c].pc = "awaitEmbed"
    /\ calls' = [calls EXCEPT ![c].pc = "done", ![c].embedData = NullData]
    /\ children' = [children EXCEPT ![calls[c].host] =
                      Append(@, [call |-> c, data |-> calls[c].embedData])]
    /\ objs' = Collect(objs, calls', componentState)
    /\ UNCHANGED <<componentState, issued, container, mount, usedTheme,
                   useThemeCalls, last, unit, entry, loaderVars>>

\* A call of the host of c other than c is suspended at an await.
InFlight(c) ==
    \E d \in CallIds \ {c} :
        /\ calls[d].host = calls[c].host
        /\ calls[d].pc \in {"awaitCore", "awaitPlugins", "awaitEmbed"}

\* (TeardownPage: a callback that clears the map.)
TeardownPage(c) ==
    /\ NoMicrotasks
    /\ calls[c].pc = "done"
    /\ ~calls[c].tornDown
    /\ calls' = [calls EXCEPT ![c].tornDown = TRUE]
    /\ last' = [last EXCEPT !.raced = IF InFlight(c) THEN calls[c].host ELSE @]
    /\ componentState' = [h \in Hosts |-> 0]
    /\ objs' = Collect(objs, calls', componentState')
    /\ UNCHANGED <<issued, container, mount, children, usedTheme,
                   useThemeCalls, unit, entry, loaderVars>>
\* (TeardownNoop: a callback that leaves the map alone.)
TeardownNoop(c) ==
    /\ NoMicrotasks
    /\ calls[c].pc = "done"
    /\ ~calls[c].tornDown
    /\ calls' = [calls EXCEPT ![c].tornDown = TRUE]
    /\ last' = [last EXCEPT !.raced = IF InFlight(c) THEN calls[c].host ELSE @]
    /\ objs' = Collect(objs, calls', componentState)
    /\ UNCHANGED <<componentState, issued, container, mount, children, usedTheme,
                   useThemeCalls, unit, entry, loaderVars>>
\* The host invokes the teardown callback returned by call c (line 273-276).
Teardown(c) ==
    /\ NoMicrotasks
    /\ calls[c].pc = "done"
    /\ ~calls[c].tornDown
    /\ calls' = [calls EXCEPT ![c].tornDown = TRUE]
    /\ last' = [last EXCEPT !.raced = IF InFlight(c) THEN calls[c].host ELSE @]
    /\ componentState' = [componentState EXCEPT ![calls[c].host] = 0]
    /\ objs' = Collect(objs, calls', componentState')
    /\ UNCHANGED <<issued, container, mount, children, usedTheme,
                   useThemeCalls, unit, entry, loaderVars>>

\* The host adds the element .stBokehContainer to the root of h.
ContainerAdded(h) ==
    /\ NoMicrotasks
    /\ ~container[h]
    /\ container' = [container EXCEPT ![h] = TRUE]
    /\ UNCHANGED <<componentState, objs, calls, issued, mount, children, usedTheme,
                   useThemeCalls, last, unit, entry, loaderVars>>

\* onLoad (line 102-108) and onError (line 109-114) of the promise of src.
\* (onLoadAlways: an onLoad without the test of line 103.)
onLoadAlways(src) ==
    /\ done' = [done EXCEPT ![src] = TRUE]
    /\ dataLoaded' = [dataLoaded EXCEPT ![src] = TRUE]
    /\ scriptLoadPromises' = [scriptLoadPromises EXCEPT ![src] = "resolved"]
    /\ settled' = [settled EXCEPT ![src] = @ + 1]
onLoad(src) ==
    IF done[src]
    THEN UNCHANGED <<done, dataLoaded, scriptLoadPromises, settled>>
    ELSE /\ done' = [done EXCEPT ![src] = TRUE]
         /\ dataLoaded' = [dataLoaded EXCEPT ![src] = TRUE]
         /\ scriptLoadPromises' = [scriptLoadPromises EXCEPT ![src] = "resolved"]
         /\ settled' = [settled EXCEPT ![src] = @ + 1]
\* (onErrorIgnored: an onError that cleans up without calling reject.)
onErrorIgnored(src) ==
    /\ done' = [done EXCEPT ![src] = TRUE]
    /\ UNCHANGED <<dataLoaded, scriptLoadPromises, settled>>
onError(src) ==
    IF done[src]
    THEN UNCHANGED <<done, dataLoaded, scriptLoadPromises, settled>>
    ELSE /\ done' = [done EXCEPT ![src] = TRUE]
         /\ scriptLoadPromises' = [scriptLoadPromises EXCEPT ![src] = "rejected"]
         /\ settled' = [settled EXCEPT ![src] = @ + 1]
         /\ UNCHANGED dataLoaded

\* The browser has fetched and run the script of src and fires "load".  The
\* core script defines window.Bokeh when it runs, or defines it later.
ScriptLoad(src, defines) ==
    /\ NoMicrotasks
    /\ scriptEl[src] = "fetching"
    /\ scriptEl' = [scriptEl EXCEPT ![src] = "loaded"]
    /\ windowBokeh' = (windowBokeh \/ (src = CoreUrl /\ defines))
    /\ IF Listening(src)
       THEN onLoad(src)
       ELSE UNCHANGED <<done, dataLoaded, scriptLoadPromises, settled>>
    /\ bokehLoadPromise' = CoreContinuation(scriptLoadPromises'[CoreUrl], windowBokeh')
    /\ UNCHANGED <<appended, setCalls, renderVars>>

\* The browser fails to fetch the script of src and fires "error".
ScriptError(src) ==
    /\ NoMicrotasks
    /\ scriptEl[src] = "fetching"
    /\ scriptEl' = [scriptEl EXCEPT ![src] = "failed"]
    /\ IF Listening(src)
       THEN onError(src)
       ELSE UNCHANGED <<done, dataLoaded, scriptLoadPromises, settled>>
    /\ bokehLoadPromise' = CoreContinuation(scriptLoadPromises'[CoreUrl], windowBokeh)
    /\ UNCHANGED <<appended, setCalls, windowBokeh, renderVars>>

\* The timer of line 123 fires after timeoutMs.
ScriptTimeout(src) ==
    /\ NoMicrotasks
    /\ Listening(src)
    /\ onError(src)
    /\ bokehLoadPromise' = CoreContinuation(scriptLoadPromises'[CoreUrl], windowBokeh)
    /\ UNCHANGED <<appended, setCalls, scriptEl, windowBokeh, renderVars>>

\* The timer of line 126-128 fires: the element found in the document had
\* readyState "complete".  cleanup() does not clear this timer: it fires
\* also when onError has run before it.
ReadyStateComplete(src) ==
    /\ NoMicrotasks
    /\ scriptEl[src] = "complete"
    /\ Listening(src) \/ done[src]
    /\ onLoad(src)
    /\ bokehLoadPromise' = CoreContinuation(scriptLoadPromises'[CoreUrl], windowBokeh)
    /\ UNCHANGED <<appended, setCalls, scriptEl, windowBokeh, renderVars>>

\* window.Bokeh becomes defined after the core script has run.
BokehAppears ==
    /\ NoMicrotasks
    /\ ~windowBokeh
    /\ scriptEl[CoreUrl] \in {"loaded", "complete"}
    /\ windowBokeh' = TRUE
    /\ UNCHANGED <<scriptLoadPromises, bokehLoadPromise, done, appended, setCalls, scriptEl,
                   dataLoaded, settled, renderVars>>

\* tick() of line 145-152 finds window.Bokeh ...
PollTick ==
    /\ NoMicrotasks
    /\ bokehLoadPromise = "polling"
    /\ windowBokeh
    /\ bokehLoadPromise' = "resolved"
    /\ UNCHANGED <<scriptLoadPromises, done, appended, setCalls, scriptEl, dataLoaded,
                   windowBokeh, settled, renderVars>>

\* ... or finds timeoutMs exceeded.
PollTimeout ==
    /\ NoMicrotasks
    /\ bokehLoadPromise = "polling"
    /\ ~windowBokeh
    /\ bokehLoadPromise' = "rejected"
    /\ UNCHANGED <<scriptLoadPromises, done, appended, setCalls, scriptEl, dataLoaded,
                   windowBokeh, settled, renderVars>>

\* ------------------------------------- index.ts before loaders.ts
\* src/streamlit_bokeh/frontend/src/index.ts: the entry point that loads
\* the scripts itself (loadBokeh, loadFonts, loadCss) and keeps the flags
\* hasInitialized and the data memo by key.  Its state is the record entry.
Keys == {"k1", "k2"}

\* A call of the default export (line 285-332): pc is "idle", "awaitLoads"
\* (line 301), "awaitEmbed" (line 173), "done" or "failed"; chartFound
\* tells whether the root given to the call holds the container and the
\* element #stBokehChart_key.
EntryIdle ==
    [pc |-> "idle", key |-> "none", figure |-> Null, chartFound |-> FALSE,
     error |-> "none"]

\* hasInitialized (line 283); savedFigure and savedChartData (line 57-58);
\* bokeh: window.Bokeh is defined; bokehScripts: core script elements
\* appended (line 239-241); pluginScripts: runs of the loop of line 261-265;
\* loads: the Promise.all of line 301 of the key ("none", "pending",
\* "resolved"); timer: the timeout of line 246 is armed; uncaught: errors
\* thrown by timer callbacks; children: renderings in the chart element;
\* last: the call that ran line 308 and on last, the state of the loads of
\* its key at that moment, and whether it called embed_item.
\* The fields below are those of src/unnamed/part_007, where every call of
\* loadBokeh is told apart: loadBokeh is the promise of line 208 made for
\* call c, timeout the timer of line 210 of call c, loadCalls the number of
\* times line 291-295 ran for the key, themeSetters the closure variables
\* of componentThemeSetters[key] (line 269), charts the elements with id
\* key in the document, usedTheme the theme given to use_theme last.
FreshEntry ==
    [hasInitialized |-> [k \in Keys |-> FALSE],
     savedFigure |-> [k \in Keys |-> Null],
     savedChartData |-> [k \in Keys |-> NullData],
     bokeh |-> FALSE,
     bokehScripts |-> 0,
     pluginScripts |-> 0,
     loads |-> [k \in Keys |-> "none"],
     timer |-> [k \in Keys |-> FALSE],
     uncaught |-> 0,
     calls |-> [c \in CallIds |-> EntryIdle],
     issued |-> 0,
     children |-> [k \in Keys |-> 0],
     last |-> [call |-> 0, loads |-> "none", bokeh |-> FALSE, embedded |-> FALSE],
     loadBokeh |-> [c \in CallIds |-> "none"],
     timeout |-> [c \in CallIds |-> FALSE],
     loadCalls |-> [k \in Keys |-> 0],
     themeSetters |-> [k \in Keys |-> [currentTheme |-> Null, appTheme |-> NullApp]],
     charts |-> [k \in Keys |-> 0],
     usedTheme |-> NoTheme]

\* The variables of the component with loaders.ts.
currentVars ==
    <<loaderVars, componentState, objs, calls, issued, container, mount, children,
      usedTheme, useThemeCalls, last, unit>>

\* The continuation of a call is ready: the Promise.all it awaits resolved.
EntryRunnable(c) ==
    /\ entry.calls[c].pc = "awaitLoads"
    /\ entry.loads[entry.calls[c].key] = "resolved"
EntryNoMicrotasks == \A c \in CallIds : ~EntryRunnable(c)

\* The default export from line 308 to its end, run by call c (record r) in
\* the state e: the lookup of the container and the chart element,
\* getChartData(figure, key), and updateChart up to the await of embed_item
\* (use_container_width is false in these calls).  window.Bokeh.embed throws
\* a TypeError when window.Bokeh is undefined.
EntryRun(e, c, r) ==
    LET k == r.key
        hasChanged == r.figure # e.savedFigure[k]
        data == IF hasChanged THEN JSONparse(r.figure) ELSE e.savedChartData[k]
        st == [call |-> c, loads |-> e.loads[k], bokeh |-> e.bokeh, embedded |-> FALSE]
        r1 == [r EXCEPT !.figure = Null]
    IN
    IF ~r.chartFound
    THEN \* line 314-316
         [e EXCEPT !.calls[c] = [r1 EXCEPT !.pc = "failed", !.error = "Chart not found"],
                   !.last = st]
    ELSE IF ~hasChanged
    THEN [e EXCEPT !.calls[c] = [r1 EXCEPT !.pc = "done"], !.last = st]
    ELSE LET e1 == [e EXCEPT !.savedFigure[k] = r.figure,
                             !.savedChartData[k] = PatchDimensions(data, FALSE, 0),
                             !.children[k] = 0]
         IN  IF e.bokeh
             THEN [e1 EXCEPT !.calls[c] = [r1 EXCEPT !.pc = "awaitEmbed"],
                             !.last = [st EXCEPT !.embedded = TRUE]]
             ELSE [e1 EXCEPT !.calls[c] = [r1 EXCEPT !.pc = "failed", !.error = "TypeError"],
                             !.last = st]

\* The test of line 299 for key.
SkipsLoads(e, key) == e.hasInitialized[key]

\* The host calls the default export with data.key = key.
EntryRender(key, figure, chartFound) ==
    /\ EntryNoMicrotasks
    /\ entry.issued < MaxCalls
    /\ LET c == entry.issued + 1
           r == [EntryIdle EXCEPT !.key = key, !.figure = figure,
                                  !.chartFound = chartFound]
           e == [entry EXCEPT !.issued = c]
       IN  entry' =
             IF SkipsLoads(entry, key)
             THEN EntryRun(e, c, r)
             ELSE \* line 300-305: the flag, then loadBokeh, loadFonts, loadCss
                  [e EXCEPT !.hasInitialized[key] = TRUE,
                            !.bokehScripts = @ + 1,
                            !.loads[key] = "pending",
                            !.timer[key] = TRUE,
                            !.calls[c] = [r EXCEPT !.pc = "awaitLoads"]]
    /\ UNCHANGED currentVars

\* The core script has run: window.Bokeh is defined.
EntryBokehDefined ==
    /\ EntryNoMicrotasks
    /\ entry.bokehScripts > 0
    /\ ~entry.bokeh
    /\ entry' = [entry EXCEPT !.bokeh = TRUE]
    /\ UNCHANGED currentVars

\* The interval of line 250-256 of the loadBokeh of key finds window.Bokeh:
\* the timers are cleared, the promise resolves, loadBokeh appends the
\* plugin scripts (line 259-265) and the Promise.all of line 301 resolves.
loadBokehTick(key) ==
    /\ EntryNoMicrotasks
    /\ entry.loads[key] = "pending"
    /\ entry.bokeh
    /\ entry' = [entry EXCEPT !.loads[key] = "resolved", !.timer[key] = FALSE,
                              !.pluginScripts = @ + 1]
    /\ UNCHANGED currentVars

\* The timeout of line 246-248 of the loadBokeh of key fires: its callback
\* throws; the promise is not settled and the interval goes on.
loadBokehTimeout(key) ==
    /\ EntryNoMicrotasks
    /\ entry.timer[key]
    /\ ~entry.bokeh
    /\ entry' = [entry EXCEPT !.timer[key] = FALSE, !.uncaught = @ + 1]
    /\ UNCHANGED currentVars

\* The continuation of call c after line 305.
EntryResume(c) ==
    /\ EntryRunnable(c)
    /\ \A d \in CallIds : d < c => ~EntryRunnable(d)
    /\ entry' = EntryRun(entry, c, entry.calls[c])
    /\ UNCHANGED currentVars

\* embed_item of call c completes (line 173) and the call returns.
EntryEmbedDone(c) ==
    /\ EntryNoMicrotasks
    /\ entry.calls[c].pc = "awaitEmbed"
    /\ entry' = [entry EXCEPT !.calls[c].pc = "done",
                              !.children[entry.calls[c].key] = @ + 1]
    /\ UNCHANGED currentVars

\* ------------------------------ index.ts with the memos kept by key
\* src/unnamed/part_007: bokehComponent loads the scripts itself as the
\* entry point above does, sets hasInitialized[key] after the await (line
\* 296), keeps a theme setter and a data getter by key and creates the chart
\* element.  Its state is the record entry as well.

\* The continuation of call c is ready: its loadBokeh resolved, and with it
\* the Promise.all of line 291.
ComponentRunnable(c) ==
    /\ entry.calls[c].pc = "awaitLoads"
    /\ entry.loadBokeh[c] = "resolved"
ComponentNoMicrotasks == \A c \in CallIds : ~ComponentRunnable(c)

\* getOrCreateChart(container, key), line 249-258: the number of elements
\* with id key afterwards.
ChartsAfter(n) == IF n = 0 THEN 1 ELSE n

\* bokehComponent from line 299 to its end, run by call c (record r, with
\* chartFound telling whether the root holds .stBokehContainer) in the
\* state e.  The theme name is r.theme, the host theme LightSnapshot,
\* use_container_width false.
ComponentRun(e, c, r) ==
    LET k == r.key
        st == [call |-> c, loads |-> e.loadBokeh[c], bokeh |-> e.bokeh, embedded |-> FALSE]
        r1 == [r EXCEPT !.figure = Null]
        d == getChartData([savedFigure |-> e.savedFigure[k],
                           savedChartData |-> e.savedChartData[k]], r.figure)
        t == setChartTheme(e.themeSetters[k], r.theme, LightSnapshot)
    IN
    IF ~r.chartFound
    THEN \* line 316-318
         [e EXCEPT !.calls[c] = [r1 EXCEPT !.pc = "failed", !.error = "Container not found"],
                   !.last = st]
    ELSE LET e1 == [e EXCEPT !.charts[k] = ChartsAfter(@),
                             !.savedFigure[k] = d.savedFigure,
                             !.savedChartData[k] = d.savedChartData]
         IN
         IF d.threw
         THEN \* JSON.parse, line 64
              [e1 EXCEPT !.calls[c] = [r1 EXCEPT !.pc = "failed", !.error = "SyntaxError"],
                         !.last = st]
         ELSE LET e2 == [e1 EXCEPT !.themeSetters[k] =
                                       [currentTheme |-> t.currentTheme,
                                        appTheme |-> t.appTheme],
                                   !.usedTheme = IF t.useTheme THEN t.theme ELSE @]
              IN
              IF d.hasChanged \/ t.themeChanged
              THEN [e2 EXCEPT !.savedChartData[k] = PatchDimensions(d.data, FALSE, 0),
                              !.children[k] = 0,
                              !.calls[c] = [r1 EXCEPT !.pc = "awaitEmbed"],
                              !.last = [st EXCEPT !.embedded = TRUE]]
              ELSE [e2 EXCEPT !.calls[c] = [r1 EXCEPT !.pc = "done"], !.last = st]

\* The test of line 290 for key.
Loads(e, key) == ~e.hasInitialized[key]

\* The host calls bokehComponent with component.key = key.
ComponentRender(key, figure, theme, containerFound) ==
    /\ ComponentNoMicrotasks
    /\ entry.issued < MaxCalls
    /\ LET c == entry.issued + 1
           r == [key |-> key, figure |-> figure, theme |-> theme,
                 chartFound |-> containerFound, pc |-> "idle", error |-> "none"]
           e == [entry EXCEPT !.issued = c]
       IN  entry' =
             IF Loads(entry, key)
             THEN \* line 291-295: loadBokeh, loadFonts, loadCss
                  [e EXCEPT !.bokehScripts = @ + 1,
                            !.loadCalls[key] = @ + 1,
                            !.loadBokeh[c] = "pending",
                            !.timeout[c] = TRUE,
                            !.calls[c] = [r EXCEPT !.pc = "awaitLoads"]]
             ELSE ComponentRun(e, c, r)
    /\ UNCHANGED currentVars

\* The core script has run: window.Bokeh is defined.
ComponentBokehDefined ==
    /\ ComponentNoMicrotasks
    /\ entry.bokehScripts > 0
    /\ ~entry.bokeh
    /\ entry' = [entry EXCEPT !.bokeh = TRUE]
    /\ UNCHANGED currentVars

\* The interval of line 214-220 of the loadBokeh of call c finds
\* window.Bokeh: the timers are cleared, the promise resolves and loadBokeh
\* appends the plugin scripts (line 223-235).
ComponentTick(c) ==
    /\ ComponentNoMicrotasks
    /\ entry.loadBokeh[c] = "pending"
    /\ entry.bokeh
    /\ entry' = [entry EXCEPT !.loadBokeh[c] = "resolved", !.timeout[c] = FALSE,
                              !.pluginScripts = @ + 1]
    /\ UNCHANGED currentVars

\* The timeout of line 210-212 of the loadBokeh of call c fires: its
\* callback throws; the promise is not settled and the interval goes on.
ComponentTimeout(c) ==
    /\ ComponentNoMicrotasks
    /\ entry.timeout[c]
    /\ ~entry.bokeh
    /\ entry' = [entry EXCEPT !.timeout[c] = FALSE, !.uncaught = @ + 1]
    /\ UNCHANGED currentVars

\* The continuation of call c after line 295: line 296, then the rest.
ComponentResume(c) ==
    /\ ComponentRunnable(c)
    /\ entry' = ComponentRun([entry EXCEPT !.hasInitialized[entry.calls[c].key] = TRUE],
                             c, entry.calls[c])
    /\ UNCHANGED currentVars

\* embed_item of call c completes (line 170) and the call returns.
ComponentEmbedDone(c) ==
    /\ ComponentNoMicrotasks
    /\ entry.calls[c].pc = "awaitEmbed"
    /\ entry' = [entry EXCEPT !.calls[c].pc = "done",
                              !.children[entry.calls[c].key] = @ + 1]
    /\ UNCHANGED currentVars

\* ---------------------------------------------------------- specifications
\* index.ts after the module has been evaluated.
InitRender ==
    /\ componentState = [h \in Hosts |-> 0]
    /\ objs = [i \in CallIds |-> FreshState]
    /\ calls = [c \in CallIds |-> IdleCall]
    /\ issued = 0
    /\ mount = [h \in Hosts |-> 0]
    /\ children = [h \in Hosts |-> <<>>]
    /\ usedTheme = NoTheme
    /\ useThemeCalls = 0
    /\ last = NoStep
    /\ unit = FreshUnit
    /\ entry = FreshEntry

\* loaders.ts after the module has been evaluated (line 50-51).
InitLoader ==
    /\ scriptLoadPromises = [u \in BOKEH_URLS |-> "none"]
    /\ bokehLoadPromise = "null"
    /\ done = [u \in BOKEH_URLS |-> FALSE]
    /\ appended = [u \in BOKEH_URLS |-> 0]
    /\ setCalls = [u \in BOKEH_URLS |-> 0]
    /\ settled = [u \in BOKEH_URLS |-> 0]

\* The steps of a page that is loading the scripts.
Loading ==
    \/ \E u \in BOKEH_URLS, defines \in BOOLEAN : ScriptLoad(u, defines)
    \/ \E u \in BOKEH_URLS : ScriptError(u)
    \/ \E u \in BOKEH_URLS : ScriptTimeout(u)
    \/ \E u \in BOKEH_URLS : ReadyStateComplete(u)
    \/ BokehAppears
    \/ PollTick
    \/ PollTimeout

\* The continuations of the render calls.
Continue ==
    \/ \E c \in CallIds : ResumeCore(c)
    \/ \E c \in CallIds : ResumePlugins(c)
    \/ \E c \in CallIds : EmbedDone(c)

\* SpecLoader: the loading of the scripts.  The document holds none of the
\* scripts, or one script element that this module did not append (the
\* bundles v1 and v2 share the assets and each has its own loaders.ts);
\* window.Bokeh may be defined already.  Render calls on two hosts, with one
\* chart definition.
InitLoading ==
    /\ InitRender
    /\ InitLoader
    /\ container = [h \in Hosts |-> TRUE]
    /\ \E x \in {CoreUrl, "widgets"}, e \in {"absent", "fetching", "loaded", "complete"},
          marked \in BOOLEAN :
          /\ marked => e \in {"loaded", "complete"}
          /\ windowBokeh \in {FALSE, x = CoreUrl /\ e \in {"loaded", "complete"}}
          /\ scriptEl = [u \in BOKEH_URLS |-> IF u = x THEN e ELSE "absent"]
          /\ dataLoaded = [u \in BOKEH_URLS |-> u = x /\ marked]
NextLoading ==
    \/ \E h \in Hosts :
           /\ issued = 0 => h = "h1"
           /\ Render(h, FigA, "streamlit", LightSnapshot, FALSE, 1200)
    \/ \E c \in CallIds : Teardown(c)
    \/ Continue
    \/ Loading
SpecLoader == InitLoading /\ [][NextLoading]_vars

\* Spec: the render calls of one host on a page whose scripts an earlier
\* instance has loaded (SpecLoader covers the loading).  The chart
\* definition, the theme name and the host snapshot vary from call to call.
InitLoaded ==
    /\ scriptLoadPromises = [u \in BOKEH_URLS |-> "resolved"]
    /\ bokehLoadPromise = "resolved"
    /\ done = [u \in BOKEH_URLS |-> TRUE]
    /\ appended = [u \in BOKEH_URLS |-> 1]
    /\ setCalls = [u \in BOKEH_URLS |-> 1]
    /\ settled = [u \in BOKEH_URLS |-> 1]
    /\ scriptEl = [u \in BOKEH_URLS |-> "loaded"]
    /\ dataLoaded = [u \in BOKEH_URLS |-> TRUE]
    /\ windowBokeh = TRUE
Init ==
    /\ InitRender
    /\ InitLoaded
    /\ container \in {[h \in Hosts |-> TRUE], [h \in Hosts |-> h # "h1"]}
SpecFigures == {FigA, FigB}
SpecThemes == {"streamlit", "dark_minimal"}
Next ==
    \/ \E f \in SpecFigures, t \in SpecThemes, s \in Snapshots :
           /\ t # "streamlit" => s = LightSnapshot
           /\ Render("h1", f, t, s, FALSE, 1200)
    \/ \E c \in CallIds : Teardown(c)
    \/ ContainerAdded("h1")
    \/ Continue
Spec == Init /\ [][Next]_vars

\* ------------------------------------------------------ the functions alone
\* A call getChartData(figure) of the function under test.
DataCheck(figure) ==
    /\ unit.n < MaxUnitCalls
    /\ LET d == getChartData(unit.memo, figure)
           g == IF d.hasChanged THEN unit.gen + 1 ELSE unit.gen
       IN  unit' =
             [memo |-> [unit.memo EXCEPT !.savedFigure = d.savedFigure,
                                         !.savedChartData = d.savedChartData],
              twin |-> unit.twin,
              gen |-> g, touched |-> FALSE, n |-> unit.n + 1,
              call |-> [op |-> "data", figure |-> figure,
                        lastSeen |-> unit.memo.savedFigure,
                        threw |-> d.threw, hasChanged |-> d.hasChanged,
                        data |-> d.data, ref |-> IF d.threw THEN 0 ELSE g,
                        touched |-> unit.touched],
              prev |-> unit.call]
    /\ UNCHANGED <<loaderVars, componentState, objs, calls, issued, container,
                   mount, children, usedTheme, useThemeCalls, last, entry>>

\* The caller writes dimensions onto the object the data check returned to
\* it, which is the cached object (updateChart, line 139-154).
WriteDimensions(useContainerWidth, clientWidth) ==
    /\ unit.call.op = "data"
    /\ ~unit.memo.savedChartData.isNull
    /\ ~unit.touched
    /\ unit' = [unit EXCEPT
         !.memo.savedChartData = PatchDimensions(@, useContainerWidth, clientWidth),
         !.touched = TRUE]
    /\ UNCHANGED <<loaderVars, componentState, objs, calls, issued, container,
                   mount, children, usedTheme, useThemeCalls, last, entry>>

\* A call setChartTheme(newTheme, newAppTheme) of the function under test.
ThemeCheck(newTheme, newAppTheme) ==
    /\ unit.n < MaxUnitCalls
    /\ LET t == setChartTheme(unit.memo, newTheme, newAppTheme)
       IN  /\ unit' =
                [unit EXCEPT
                   !.memo = [@ EXCEPT !.currentTheme = t.currentTheme,
                                      !.appTheme = t.appTheme],
                   !.n = @ + 1,
                   !.call = [op |-> "theme", newTheme |-> newTheme,
                             renderedAppTheme |-> stringify(newAppTheme),
                             lastTheme |-> unit.memo.currentTheme,
                             lastAppTheme |-> unit.memo.appTheme,
                             themeChanged |-> t.themeChanged,
                             useTheme |-> t.useTheme, theme |-> t.theme],
                   !.prev = unit.call]
           /\ usedTheme' = IF t.useTheme THEN t.theme ELSE usedTheme
           /\ useThemeCalls' = IF t.useTheme THEN useThemeCalls + 1 ELSE useThemeCalls
    /\ UNCHANGED <<loaderVars, componentState, objs, calls, issued, container,
                   mount, children, last, entry>>

\* SpecData: the data check called on its own, with every chart definition.
NextData ==
    \/ \E figure \in Figures : DataCheck(figure)
    \/ \E useContainerWidth \in BOOLEAN, clientWidth \in ClientWidths :
           WriteDimensions(useContainerWidth, clientWidth)
SpecData == Init /\ [][NextData]_vars

\* SpecTheme: the theme check called on its own, with the sentinel, names of
\* Bokeh.Themes and a name that is not in Bokeh.Themes.
ThemeNames == {"streamlit", "dark_minimal", "caliber", "dark"}
NextTheme ==
    \E newTheme \in ThemeNames, newAppTheme \in Snapshots :
        ThemeCheck(newTheme, newAppTheme)
SpecTheme == Init /\ [][NextTheme]_vars

\* SpecLoaderFair: the loading of the scripts for the render calls of one
\* host, with the scheduling of the browser.  A timer that is armed fires
\* (the setTimeout of line 123 and the polling of line 145-152), and the
\* continuation of a settled promise runs.
FairLoading ==
    /\ \A u \in BOKEH_URLS : WF_vars(ScriptTimeout(u))
    /\ WF_vars(PollTick)
    /\ WF_vars(PollTimeout)
    /\ \A c \in CallIds : WF_vars(ResumeCore(c)) /\ WF_vars(ResumePlugins(c))
NextLoadingFair ==
    \/ Render("h1", FigA, "streamlit", LightSnapshot, FALSE, 1200)
    \/ Continue
    \/ Loading
SpecLoaderFair == InitLoading /\ [][NextLoadingFair]_vars /\ FairLoading

\* ------------------------------------------------------------- properties
\* The calls of host h whose embed_item is pending.
Embedding(h) == {c \in CallIds : calls[c].pc = "awaitEmbed" /\ calls[c].host = h}

\* C1  Mutual exclusion of embeds: a mount point never has two embed_item
\* calls outstanding at the same time.
C1_MutualExclusion == \A h \in Hosts : Cardinality(Embedding(h)) <= 1

\* C2  Asset-load coalescing: for every URL the loader appends at most one
\* script element, and once the URL was requested the document holds an
\* element for it; all callers get the one promise of the URL, which settles
\* at most once and keeps its outcome; after a successful load (promise
\* resolved, or element marked data-loaded) nothing is appended.
C2_Coalescing ==
    /\ [](\A u \in BOKEH_URLS :
            /\ appended[u] <= 1
            /\ settled[u] <= 1
            /\ Cached(u) => findScriptBySrc(u))
    /\ [][\A u \in BOKEH_URLS :
            /\ Cached(u) => Cached(u)'
            /\ scriptLoadPromises[u] \in {"resolved", "rejected"}
                 => scriptLoadPromises'[u] = scriptLoadPromises[u]
            /\ (scriptLoadPromises[u] = "resolved" \/ ExistingLoaded(u))
                 => appended'[u] = appended[u]]_vars
\* Two hosts await the plugin scripts, each of which was appended once.
C2_Witness ==
    \E c, d \in CallIds :
        /\ calls[c].host # calls[d].host
        /\ calls[c].pc = "awaitPlugins" /\ calls[d].pc = "awaitPlugins"
        /\ \A u \in BOKEH_URLS : appended[u] = 1

\* C3  Core before plugins: a plugin script is requested or appended only
\* when the core script has loaded and window.Bokeh exists; the plugins are
\* requested together.
C3_CoreBeforePlugins ==
    /\ \A p \in PLUGIN_URLS :
          (Cached(p) \/ appended[p] > 0) =>
             windowBokeh /\ scriptEl[CoreUrl] \in {"loaded", "complete"}
    /\ (\E p \in PLUGIN_URLS : Cached(p)) => (\A p \in PLUGIN_URLS : Cached(p))
\* The plugin scripts are being fetched after the core script has loaded.
C3_Witness ==
    /\ scriptLoadPromises[CoreUrl] = "resolved"
    /\ appended[CoreUrl] = 1
    /\ \A p \in PLUGIN_URLS : appended[p] = 1 /\ scriptEl[p] = "fetching"

\* The first sentence of C4: the step of a render call removes the children
\* of the mount point, and calls embed_item, exactly if it evaluated the
\* checks and one of them reported a change.
RerenderIffChanged ==
    LET changed == last.checked /\ (last.hasChanged \/ last.themeChanged)
    IN  (last.cleared <=> changed) /\ (last.embedded <=> changed)

\* C4 as stated: re-render exactly on change, and a render call with the
\* figure, theme name and snapshot of the previous render call on the
\* instance removes nothing and embeds nothing.
C4_AsStated ==
    /\ RerenderIffChanged
    /\ last.samePrev => ~last.cleared /\ ~last.embedded

\* C4  Re-render only on change: re-render exactly on change, and a render
\* call with the figure, theme name and snapshot of the previous render call
\* on the instance removes nothing and embeds nothing, provided that
\* previous call evaluated both checks.
C4_RerenderOnlyOnChange ==
    /\ RerenderIffChanged
    /\ (last.samePrev /\ last.prevChecked) => ~last.cleared /\ ~last.embedded
\* A call repeated the arguments of a call that had evaluated the checks.
C4_Witness ==
    /\ last.samePrev /\ last.prevChecked
    /\ last.checked /\ ~last.embedded

\* C5  Data check, same string: a call with the string of the immediately
\* preceding call reports hasChanged = false and returns the object the
\* preceding call returned (with equal content if nobody wrote onto it).
C5_SameString ==
    (/\ unit.call.op = "data"
     /\ unit.prev.op = "data"
     /\ unit.call.figure = unit.prev.figure)
    => /\ ~unit.call.hasChanged
       /\ ~unit.call.threw
       /\ ~unit.prev.threw =>
            /\ unit.call.ref = unit.prev.ref
            /\ ~unit.call.touched => unit.call.data = unit.prev.data
\* The same string twice, dimensions having been written in between.
C5_Witness ==
    /\ unit.call.op = "data"
    /\ unit.prev.op = "data"
    /\ unit.call.figure = FigA /\ unit.prev.figure = FigA
    /\ unit.call.touched
    /\ ~unit.call.hasChanged

\* C6  Data check, different string: a call with a parseable string that is
\* not the last-seen string reports hasChanged = true and returns the parse
\* of the new string, which is the cached value from then on.
C6_DifferentString ==
    (/\ unit.call.op = "data"
     /\ unit.call.figure # unit.call.lastSeen
     /\ Parseable(unit.call.figure))
    => /\ unit.call.hasChanged
       /\ ~unit.call.threw
       /\ unit.call.data = JSONparse(unit.call.figure)
       /\ unit.call.ref = unit.gen
       /\ unit.memo.savedFigure = unit.call.figure
       /\ ~unit.touched => unit.memo.savedChartData = JSONparse(unit.call.figure)
\* Two strings that differ and parse to equal values, one after the other.
C6_Witness ==
    /\ unit.call.op = "data"
    /\ unit.prev.op = "data"
    /\ unit.prev.figure = FigA /\ unit.call.figure = FigA2
    /\ unit.call.hasChanged

\* C7  Theme check result: the theme check returns true exactly when the
\* name differs from the last-applied name, or the name is "streamlit" and
\* the serialized snapshot differs from the last-applied one; when it
\* returns true the name and the snapshot are recorded.
C7_ThemeCheckResult ==
    unit.call.op = "theme" =>
      /\ unit.call.themeChanged <=>
           \/ unit.call.newTheme # unit.call.lastTheme
           \/ /\ unit.call.newTheme = "streamlit"
              /\ unit.call.renderedAppTheme # unit.call.lastAppTheme
      /\ unit.call.themeChanged =>
           /\ unit.memo.currentTheme = unit.call.newTheme
           /\ unit.memo.appTheme = unit.call.renderedAppTheme

\* C8  Failed initialization: a render call whose loadBokehGlobally rejects
\* fails and does not set initialized; initialized is set only by the step
\* of a call of that instance whose load resolved, and while it is true
\* window.Bokeh exists and every plugin promise is resolved.
C8_FailedInitStaysUninitialized ==
    /\ [](\A i \in CallIds : objs[i].initialized =>
            /\ windowBokeh
            /\ \A p \in PLUGIN_URLS : scriptLoadPromises[p] = "resolved")
    /\ [][/\ \A c \in CallIds :
               (calls[c].error # "load" /\ calls'[c].error = "load") =>
                  /\ calls'[c].pc = "failed"
                  /\ objs'[calls[c].obj].initialized => objs[calls[c].obj].initialized
          /\ \A i \in CallIds :
               (~objs[i].initialized /\ objs'[i].initialized) =>
                  /\ last'.loadResolved
                  /\ calls[last'.call].obj = i]_vars
\* A render call failed on the load and its instance is not initialized.
C8_Witness ==
    \E c \in CallIds :
        /\ calls[c].error = "load"
        /\ componentState[calls[c].host] = calls[c].obj
        /\ ~objs[calls[c].obj].initialized

\* C9  Retry after failed load: the render call that follows, on the same
\* instance, a call that failed on the load never awaits a promise that
\* was rejected before: it makes a new load attempt.
C9_RetryIssuesNewLoad == ~(last.prevError = "load" /\ last.reused)

\* The render calls that await loadBokehGlobally.
AwaitsLoad(c) == calls[c].pc \in {"awaitCore", "awaitPlugins"}

\* C10  Asset failure is reported: an error event or the timeout rejects
\* the promise of the script, and a promise resolves only through the load
\* of its script; the core promise rejects when the script promise rejects
\* or the polling times out, and resolves only when window.Bokeh exists; a
\* call that awaits a rejected load fails; a rejection is final; from some
\* time on no promise is pending and no call awaits the load.
C10_FailureReported ==
    /\ [](/\ bokehLoadPromise = "resolved" =>
               windowBokeh /\ scriptLoadPromises[CoreUrl] = "resolved"
          /\ scriptLoadPromises[CoreUrl] = "rejected" => bokehLoadPromise = "rejected")
    /\ [][/\ \A u \in BOKEH_URLS :
               /\ (Listening(u) /\ scriptEl[u] = "fetching" /\ scriptEl'[u] = "failed")
                    => scriptLoadPromises'[u] = "rejected"
               /\ (Listening(u) /\ scriptLoadPromises'[u] = "resolved")
                    => scriptEl'[u] \in {"loaded", "complete"}
               /\ scriptLoadPromises[u] = "rejected" => scriptLoadPromises'[u] = "rejected"
          /\ bokehLoadPromise = "rejected" => bokehLoadPromise' = "rejected"
          /\ (bokehLoadPromise = "polling" /\ bokehLoadPromise' = "resolved") => windowBokeh
          /\ \A c \in CallIds :
               /\ (/\ calls[c].pc = "awaitCore" /\ calls[c].core = "shared"
                   /\ calls'[c].pc # "awaitCore" /\ bokehLoadPromise = "rejected")
                    => calls'[c].pc = "failed" /\ calls'[c].error = "load"
               /\ (/\ calls[c].pc = "awaitPlugins" /\ calls'[c].pc # "awaitPlugins"
                   /\ \E p \in PLUGIN_URLS : scriptLoadPromises[p] = "rejected")
                    => calls'[c].pc = "failed" /\ calls'[c].error = "load"]_vars
    /\ <>[](/\ \A u \in BOKEH_URLS : scriptLoadPromises[u] # "pending"
            /\ bokehLoadPromise \notin {"awaitCore", "polling"}
            /\ \A c \in CallIds : ~AwaitsLoad(c))
\* A call failed on the load: the polling for window.Bokeh had timed out,
\* or a plugin script had failed.
C10_Witness ==
    /\ \E c \in CallIds : calls[c].error = "load"
    /\ \/ /\ bokehLoadPromise = "rejected"
          /\ scriptLoadPromises[CoreUrl] = "resolved"
       \/ \E p \in PLUGIN_URLS : scriptEl[p] = "failed" /\ scriptLoadPromises[p] = "rejected"

\* SpecHosts: two hosts on one page whose scripts are loaded and whose
\* containers exist; the render calls of the two interleave.
InitHosts ==
    /\ InitRender
    /\ InitLoaded
    /\ container = [h \in Hosts |-> TRUE]
NextHosts ==
    \/ \E h \in Hosts, f \in SpecFigures, t \in SpecThemes, s \in Snapshots :
           /\ issued = 0 => h = "h1"
           /\ t # "streamlit" => s = LightSnapshot
           /\ Render(h, f, t, s, FALSE, 1200)
    \/ Continue
SpecHosts == InitHosts /\ [][NextHosts]_vars

\* The closure variables of the two generators of a state record.
Memo(o) == <<o.savedFigure, o.savedChartData, o.currentTheme, o.appTheme>>

\* C11  Per-instance isolation: a step of a render call of one host leaves
\* the map entry and the memos of every other host as they are; and the
\* results of its checks are those of the instance's own call sequence:
\* hasChanged exactly if the call is the first on the record or its figure
\* differs from that of the previous call on the record, themeChanged
\* exactly if the theme is derived from the host and the call is the first
\* on the record or its name or snapshot differs from the previous call's.
C11_InstanceIsolation ==
    [][\A c \in CallIds :
         calls'[c] # calls[c] =>
           LET h == calls'[c].host
               o == IF calls[c].pc = "idle"
                    THEN IF componentState[h] = 0 THEN FreshState
                         ELSE objs[componentState[h]]
                    ELSE objs[calls[c].obj]
               first == o.prevArgs = <<>>
               a == last'.args
           IN  /\ \A g \in Hosts \ {h} :
                    /\ componentState'[g] = componentState[g]
                    /\ componentState[g] # 0 =>
                         Memo(objs'[componentState[g]]) = Memo(objs[componentState[g]])
               /\ (/\ calls[c].pc \in {"idle", "awaitPlugins"}
                   /\ calls'[c].pc \in {"awaitEmbed", "done", "failed"}) =>
                    /\ last'.call = c
                    /\ last'.checked
                    /\ last'.hasChanged <=> (first \/ a[1] # o.prevArgs[1])
                    /\ last'.themeChanged <=>
                         /\ a[2] = "streamlit"
                         /\ (first \/ a[2] # o.prevArgs[2] \/ a[3] # o.prevArgs[3])]_vars
\* The second call of h1 found nothing changed although a call of h2 with
\* another figure had run between the two calls of h1.
C11_Witness ==
    /\ last.call = 3 /\ last.checked
    /\ ~last.hasChanged /\ ~last.themeChanged
    /\ calls[1].host = "h1" /\ calls[2].host = "h2" /\ calls[3].host = "h1"
    /\ componentState["h2"] # 0
    /\ objs[componentState["h1"]].savedFigure # objs[componentState["h2"]].savedFigure

\* C12  Teardown effect: the step in which the teardown callback of a call
\* runs removes the map entry of that call's host and changes nothing
\* else: not the load state, not the script elements, not the page, not
\* the map entries of other hosts, not a state record that is still in use.
C12_TeardownEffect ==
    [][\A c \in CallIds :
         (~calls[c].tornDown /\ calls'[c].tornDown) =>
            /\ componentState' = [componentState EXCEPT ![calls[c].host] = 0]
            /\ UNCHANGED <<loaderVars, container, mount, children, usedTheme,
                           useThemeCalls, issued>>
            /\ \A d \in CallIds \ {c} : calls'[d] = calls[d]
            /\ \A i \in Live(calls', componentState') \cap CallIds :
                  objs'[i] = objs[i]]_vars
\* A host was torn down after the scripts were appended, and the other host
\* has its state record.
C12_Witness ==
    \E c \in CallIds, g \in Hosts :
        /\ calls[c].tornDown
        /\ componentState[calls[c].host] = 0
        /\ g # calls[c].host
        /\ componentState[g] # 0 /\ objs[componentState[g]].initialized
        /\ \A u \in BOKEH_URLS : appended[u] = 1 /\ scriptLoadPromises[u] = "resolved"

\* C13  Missing container: while the root of a host has no element
\* .stBokehContainer the host has no mount point, no child nodes, no embed
\* in flight and fresh memos; the step of a render call that throws
\* "Container not found" changes neither the page nor the memos and calls
\* neither use_theme nor embed_item; and the call that follows such a call
\* on the instance and reaches the checks reports hasChanged and embeds.
C13_MissingContainer ==
    /\ [](\A h \in Hosts : ~container[h] =>
            /\ mount[h] = 0 /\ children[h] = <<>> /\ Embedding(h) = {}
            /\ componentState[h] # 0 =>
                 Memo(objs[componentState[h]]) = Memo(FreshState))
    /\ [](last.error = "container" =>
            ~last.checked /\ ~last.usedTheme /\ ~last.cleared /\ ~last.embedded)
    /\ []((last.prevError = "container" /\ last.checked) =>
            last.hasChanged /\ last.cleared /\ last.embedded)
    /\ [][\A c \in CallIds :
            (calls[c].error # "container" /\ calls'[c].error = "container") =>
               /\ calls'[c].pc = "failed"
               /\ UNCHANGED <<mount, children, usedTheme, useThemeCalls, container>>
               /\ Memo(objs'[calls'[c].obj]) = Memo(objs[calls'[c].obj])]_vars
\* A call with the arguments of a call that threw "Container not found"
\* embeds once the container exists.
C13_Witness ==
    /\ last.prevError = "container"
    /\ last.samePrev
    /\ last.hasChanged /\ last.embedded
    /\ container["h1"]

\* C14  Malformed definition: every call of the data check with a string
\* that cannot be parsed throws; it returns no result.
C14_MalformedThrows ==
    (unit.call.op = "data" /\ ~Parseable(unit.call.figure)) => unit.call.threw

\* No render call of host h is suspended.
Quiet(h) ==
    \A c \in CallIds :
        calls[c].host = h => calls[c].pc \notin {"awaitCore", "awaitPlugins", "awaitEmbed"}

\* C15  Most recent data wins: once the render calls of a host have all
\* completed, its mount point holds at most one rendering, and that is the
\* rendering of the chart definition of the most recent call.
C15_MostRecentWins ==
    \A h \in Hosts :
        (Quiet(h) /\ componentState[h] # 0) =>
           /\ Len(children[h]) <= 1
           /\ \A k \in 1..Len(children[h]) :
                 children[h][k].data.id = objs[componentState[h]].savedChartData.id

\* C16  Named themes are static: a call of the theme check whose name is
\* not "streamlit" and equals the last-applied name returns false, does not
\* call use_theme and leaves the memo as it is, whatever the snapshot.
C16_NamedThemesStatic ==
    (/\ unit.call.op = "theme"
     /\ unit.call.newTheme # "streamlit"
     /\ unit.call.newTheme = unit.call.lastTheme)
    => /\ ~unit.call.themeChanged
       /\ ~unit.call.useTheme
       /\ unit.memo.currentTheme = unit.call.lastTheme
       /\ unit.memo.appTheme = unit.call.lastAppTheme
\* A built-in name repeated with another snapshot.
C16_Witness ==
    /\ unit.call.op = "theme"
    /\ unit.call.newTheme = "dark_minimal"
    /\ unit.call.lastTheme = "dark_minimal"
    /\ unit.call.renderedAppTheme # unit.call.lastAppTheme
    /\ ~unit.call.themeChanged

\* SpecThemePair: two theme checks side by side, given the same snapshots.
\* The first is called with names of which "dark" is not in Bokeh.Themes,
\* the second with the same names but "streamlit" in the place of "dark".
PairNames == {"dark", "dark_minimal", "caliber"}
ThemeCheckPair(newTheme, newAppTheme) ==
    /\ unit.n < MaxUnitCalls
    /\ LET t == setChartTheme(unit.memo, newTheme, newAppTheme)
           twinTheme == IF newTheme \in BokehThemes THEN newTheme ELSE "streamlit"
           u == setChartTheme(unit.twin, twinTheme, newAppTheme)
       IN  /\ unit' =
                [unit EXCEPT
                   !.memo = [@ EXCEPT !.currentTheme = t.currentTheme,
                                      !.appTheme = t.appTheme],
                   !.twin = [@ EXCEPT !.currentTheme = u.currentTheme,
                                      !.appTheme = u.appTheme],
                   !.n = @ + 1,
                   !.call = [op |-> "pair", newTheme |-> newTheme,
                             renderedAppTheme |-> stringify(newAppTheme),
                             themeChanged |-> t.themeChanged,
                             useTheme |-> t.useTheme, theme |-> t.theme,
                             twinChanged |-> u.themeChanged,
                             twinUseTheme |-> u.useTheme, twinTheme |-> u.theme],
                   !.prev = unit.call]
           /\ usedTheme' = IF t.useTheme THEN t.theme ELSE usedTheme
           /\ useThemeCalls' = IF t.useTheme THEN useThemeCalls + 1 ELSE useThemeCalls
    /\ UNCHANGED <<loaderVars, componentState, objs, calls, issued, container,
                   mount, children, last, entry>>
NextThemePair ==
    \E newTheme \in PairNames, newAppTheme \in Snapshots :
        ThemeCheckPair(newTheme, newAppTheme)
SpecThemePair == Init /\ [][NextThemePair]_vars

\* C17  Lookup miss is equivalent to the sentinel: called with a name that
\* is not in Bokeh.Themes, the theme check returns what it returns when
\* called with "streamlit" in its place, and registers the same theme.
C17_MissEquivalentToSentinel ==
    unit.call.op = "pair" =>
      /\ unit.call.themeChanged = unit.call.twinChanged
      /\ unit.call.useTheme = unit.call.twinUseTheme
      /\ unit.call.theme = unit.call.twinTheme

\* C18  Theme check, first call: the first call of the theme check on a
\* fresh generator returns true, for every name and every snapshot.
C18_FirstThemeCheck ==
    (unit.call.op = "theme" /\ unit.n = 1) => unit.call.themeChanged

\* C19  Theme check on repetition: a call with the name and the snapshot of
\* the call before it returns false and does not call use_theme; a call
\* that switches the name to "streamlit" returns true and registers the
\* theme derived from the snapshot.
C19_ThemeRepetition ==
    (unit.call.op = "theme" /\ unit.prev.op = "theme") =>
      /\ (/\ unit.call.newTheme = unit.prev.newTheme
          /\ unit.call.renderedAppTheme = unit.prev.renderedAppTheme)
           => ~unit.call.themeChanged /\ ~unit.call.useTheme
      /\ (unit.call.newTheme = "streamlit" /\ unit.prev.newTheme # "streamlit")
           => /\ unit.call.themeChanged
              /\ unit.call.useTheme
              /\ unit.call.theme.name = "streamlit"
              /\ unit.call.theme.text_color = unit.call.renderedAppTheme[3]
\* "dark" was repeated with the same snapshot (it returned false), then the
\* name was switched to "streamlit" with that snapshot.
C19_Witness ==
    /\ unit.call.op = "theme" /\ unit.prev.op = "theme"
    /\ unit.prev.newTheme = "dark" /\ unit.prev.lastTheme = "dark"
    /\ unit.prev.renderedAppTheme = unit.prev.lastAppTheme
    /\ ~unit.prev.themeChanged
    /\ unit.call.newTheme = "streamlit"
    /\ unit.call.renderedAppTheme = unit.prev.renderedAppTheme
    /\ unit.call.themeChanged

\* C20  Data check, first call: the first data check on a state record,
\* also on the record created after a teardown, reports hasChanged and
\* returns the parse of its string, which the call saves and embeds.
C20_FirstDataCheck ==
    [][\A c \in CallIds :
         LET o == IF calls[c].pc = "idle"
                  THEN IF componentState[calls'[c].host] = 0 THEN FreshState
                       ELSE objs[componentState[calls'[c].host]]
                  ELSE objs[calls[c].obj]
         IN  (/\ calls[c].pc \in {"idle", "awaitPlugins"}
              /\ calls'[c].pc \in {"awaitEmbed", "done", "failed"}
              /\ last'.checked
              /\ o.savedFigure = Null) =>
                /\ last'.call = c
                /\ last'.hasChanged
                /\ calls'[c].pc = "awaitEmbed"
                /\ calls'[c].embedData.id = JSONparse(last'.args[1]).id
                /\ objs'[calls'[c].obj].savedFigure = last'.args[1]]_vars
\* The first call on the record created after a teardown embeds.
C20_Witness ==
    /\ last.call > 1 /\ last.checked /\ last.hasChanged
    /\ calls[last.call].obj = last.call
    /\ \E c \in CallIds : c < last.call /\ calls[c].tornDown

\* ------------------------------------------------ the dimensions alone
\* The plots given to getChartDimensions and updateChart on their own:
\* doc.roots[0].attributes with width and height present or absent.  A width
\* or height of 0 is a size the library accepts.
NativeWidths == {0, 300, 800}
NativeHeights == {0, 400}
Plots ==
    {[has |-> hs,
      width |-> IF "width" \in hs THEN Number(w) ELSE Number(0),
      height |-> IF "height" \in hs THEN Number(h) ELSE Number(0)] :
        hs \in SUBSET {"width", "height"}, w \in NativeWidths, h \in NativeHeights}

\* A call getChartDimensions(plot, useContainerWidth, parentElement), as
\* index.test.ts calls it.
Dimensions(attributes, useContainerWidth, clientWidth) ==
    /\ unit.n < MaxUnitCalls
    /\ unit' = [unit EXCEPT
         !.n = @ + 1,
         !.call = [op |-> "dims", attributes |-> attributes,
                   useContainerWidth |-> useContainerWidth,
                   clientWidth |-> clientWidth,
                   result |-> getChartDimensions(attributes, useContainerWidth,
                                                 clientWidth)],
         !.prev = NoCall]
    /\ UNCHANGED <<loaderVars, componentState, objs, calls, issued, container,
                   mount, children, usedTheme, useThemeCalls, last, entry>>

\* updateChart up to line 154, on a parsed definition whose first root has
\* these attributes: before and after are the attributes, dim the computed
\* dimensions.
UpdatePlot(attributes, useContainerWidth, clientWidth) ==
    /\ unit.n < MaxUnitCalls
    /\ LET data == [isNull |-> FALSE, id |-> "P", attributes |-> attributes] IN
       unit' = [unit EXCEPT
         !.n = @ + 1,
         !.call = [op |-> "update", before |-> attributes,
                   useContainerWidth |-> useContainerWidth,
                   clientWidth |-> clientWidth,
                   dim |-> getChartDimensions(attributes, useContainerWidth,
                                              clientWidth),
                   after |-> PatchDimensions(data, useContainerWidth,
                                             clientWidth).attributes],
         !.prev = NoCall]
    /\ UNCHANGED <<loaderVars, componentState, objs, calls, issued, container,
                   mount, children, usedTheme, useThemeCalls, last, entry>>

NextDims ==
    \E attributes \in Plots, useContainerWidth \in BOOLEAN, clientWidth \in ClientWidths :
        \/ Dimensions(attributes, useContainerWidth, clientWidth)
        \/ UpdatePlot(attributes, useContainerWidth, clientWidth)
SpecDims == Init /\ [][NextDims]_vars

\* C21  Dimensions without container fit: with useContainerWidth = false,
\* getChartDimensions returns the plot's width and height attributes
\* unchanged, each replaced by its default (400, 350) on its own when it is
\* absent, whatever the container's width.
C21_NativeDimensions ==
    (unit.call.op = "dims" /\ ~unit.call.useContainerWidth) =>
        LET a == unit.call.attributes IN
        /\ unit.call.result.width =
             IF "width" \in a.has THEN a.width ELSE Number(400)
        /\ unit.call.result.height =
             IF "height" \in a.has THEN a.height ELSE Number(350)
C21_Witness ==
    /\ unit.call.op = "dims"
    /\ ~unit.call.useContainerWidth
    /\ unit.call.clientWidth = 1200
    /\ unit.call.attributes.has = {"width"}
    /\ unit.call.attributes.width = Number(800)
    /\ unit.call.result = [width |-> Number(800), height |-> Number(350)]

\* C22  Dimensions with container fit: with useContainerWidth = true,
\* getChartDimensions returns the container's client width as width, and a
\* height with height * nativeWidth = width * nativeHeight (the native aspect
\* ratio is kept), the native sizes being 400 and 350 when absent.
C22_AspectPreserved ==
    (unit.call.op = "dims" /\ unit.call.useContainerWidth) =>
        LET a == unit.call.attributes
            nativeWidth == IF "width" \in a.has THEN a.width ELSE Number(400)
            nativeHeight == IF "height" \in a.has THEN a.height ELSE Number(350)
        IN  /\ unit.call.result.width = Number(unit.call.clientWidth)
            /\ Times(unit.call.result.height, nativeWidth) =
                 Times(unit.call.result.width, nativeHeight)

\* C23  Positive dimensions only: updateChart writes a computed width (or
\* height) onto the attributes of the first root only if the value is
\* strictly positive; in fit mode with a container width of 0 both computed
\* values are 0 and the width and height attributes stay as they were.
C23_PositiveOnly ==
    unit.call.op = "update" =>
        LET b == unit.call.before
            a == unit.call.after
            dim == unit.call.dim
        IN  /\ ~Positive(dim.width) =>
                 /\ ("width" \in a.has) = ("width" \in b.has)
                 /\ a.width = b.width
            /\ ~Positive(dim.height) =>
                 /\ ("height" \in a.has) = ("height" \in b.has)
                 /\ a.height = b.height
            /\ (unit.call.useContainerWidth /\ unit.call.clientWidth = 0) =>
                 /\ dim.width = Number(0)
                 /\ dim.height = Number(0)
                 /\ a = b

\* ------------------------------------------------ the theme map alone
\* Host themes with two colour sets and two font tokens.
HostFonts == {"sans-serif", "\"Inter\", sans-serif"}
HostThemes == {[t EXCEPT !.font = f] : t \in Snapshots, f \in HostFonts}

\* The objects given to get, by the classes of ThemeKeys they are an instance
\* of (a figure, a LinearAxis, a ColorBar, a Title, and a Range1d, which is
\* of none of them); no class of ThemeKeys extends another.
Instances == {{"Plot"}, {"Axis"}, {"BaseColorBar"}, {"Title"}, {}}

\* window.Bokeh.Models: every class of ThemeKeys, every class but one, and no
\* registry at all.
AllKeys == {ThemeKeys[i] : i \in 1..Len(ThemeKeys)}
ModelRegistries == {AllKeys, AllKeys \ {"BaseColorBar"}, {}}

\* Attribute names asked for; line_width is configured for no type.
AttrNames ==
    {"background_fill_color", "major_tick_line_alpha", "text_font",
     "text_font_size", "major_label_text_font", "line_width"}

\* A call streamlitTheme(theme).
Translate(theme) ==
    /\ unit.n < MaxUnitCalls
    /\ unit' = [unit EXCEPT
         !.n = @ + 1,
         !.call = [op |-> "translate", theme |-> theme,
                   attrs |-> streamlitThemeAttrs(theme)],
         !.prev = NoCall]
    /\ UNCHANGED <<loaderVars, componentState, objs, calls, issued, container,
                   mount, children, usedTheme, useThemeCalls, last, entry>>

\* A call streamlitTheme(theme).get(obj, attr), as the library makes it,
\* with window.Bokeh.Models being models.
ThemeGet(theme, models, obj, attr) ==
    /\ unit.n < MaxUnitCalls
    /\ LET g == get(streamlitThemeAttrs(theme), models, obj, attr) IN
       unit' = [unit EXCEPT
         !.n = @ + 1,
         !.call = [op |-> "get", theme |-> theme, models |-> models,
                   obj |-> obj, attr |-> attr,
                   threw |-> g.threw, value |-> g.value],
         !.prev = NoCall]
    /\ UNCHANGED <<loaderVars, componentState, objs, calls, issued, container,
                   mount, children, usedTheme, useThemeCalls, last, entry>>

NextThemeMap ==
    \/ \E theme \in HostThemes : Translate(theme)
    \/ \E theme \in Snapshots, models \in ModelRegistries, obj \in Instances,
          attr \in AttrNames : ThemeGet(theme, models, obj, attr)
SpecThemeMap == Init /\ [][NextThemeMap]_vars

FontFamilyAttrs ==
    {<<"Axis", "major_label_text_font">>, <<"Axis", "axis_label_text_font">>,
     <<"Legend", "label_text_font">>, <<"BaseColorBar", "title_text_font">>,
     <<"BaseColorBar", "major_label_text_font">>, <<"Title", "text_font">>}
FontSizes ==
    {<<"Axis", "major_label_text_font_size", "1em">>,
     <<"Axis", "axis_label_text_font_size", "1em">>,
     <<"Legend", "label_text_font_size", "1.025em">>,
     <<"BaseColorBar", "title_text_font_size", "1.025em">>,
     <<"BaseColorBar", "major_label_text_font_size", "1.025em">>,
     <<"Title", "text_font_size", "1.15em">>}
FontSizesFixed ==
    \A e \in FontSizes : unit.call.attrs[e[1]][e[2]] = Str(e[3])

\* C25 as stated  Font family follows the host: in the map returned by
\* streamlitTheme every font-family attribute equals the host's font token,
\* and every font-size attribute is a fixed em value.
C25_AsStated ==
    unit.call.op = "translate" =>
        /\ \A e \in FontFamilyAttrs :
               unit.call.attrs[e[1]][e[2]] = Str(unit.call.theme.font)
        /\ FontSizesFixed

\* C25  Font family is fixed: in the map returned by streamlitTheme every
\* font-family attribute equals the literal "Source Sans Pro", sans-serif,
\* whatever the host's font token, and every font-size attribute is a fixed
\* em value.
C25_FontFamilyFixed ==
    unit.call.op = "translate" =>
        /\ \A e \in FontFamilyAttrs :
               unit.call.attrs[e[1]][e[2]] = Str("\"Source Sans Pro\", sans-serif")
        /\ FontSizesFixed
C25_Witness ==
    /\ unit.call.op = "translate"
    /\ unit.call.theme.font = "\"Inter\", sans-serif"
    /\ unit.call.attrs.Title.text_font = Str("\"Source Sans Pro\", sans-serif")
    /\ unit.call.attrs.Legend.label_text_font_size = Str("1.025em")

\* C26  Global load state is append-only: the entry of scriptLoadPromises for
\* a URL is written exactly once, by the first call that requests the URL,
\* and is never removed or replaced afterwards, whatever render calls, load
\* successes, load failures, timeouts and teardowns follow.
C26_AppendOnly ==
    /\ [](\A u \in BOKEH_URLS :
             /\ setCalls[u] <= 1
             /\ scriptLoadPromises[u] # "none" <=> setCalls[u] = 1)
    /\ [][\A u \in BOKEH_URLS :
             /\ setCalls'[u] >= setCalls[u]
             /\ setCalls'[u] > setCalls[u] => scriptLoadPromises[u] = "none"
             /\ scriptLoadPromises[u] # "none" =>
                  /\ scriptLoadPromises'[u] # "none"
                  /\ \/ scriptLoadPromises'[u] = scriptLoadPromises[u]
                     \/ scriptLoadPromises[u] = "pending"]_vars
\* A render call was handed an entry that had been rejected; the entry had
\* been written once.
C26_Witness ==
    /\ issued >= 2
    /\ last.reused
    /\ \E u \in BOKEH_URLS :
          scriptLoadPromises[u] = "rejected" /\ setCalls[u] = 1 /\ settled[u] = 1
    /\ \E c \in CallIds : calls[c].pc = "failed" /\ calls[c].error = "load"

\* The theme of the selection of the render call whose step last records:
\* the theme map of its host snapshot when the name is "streamlit" or not a
\* built-in name, the built-in theme otherwise.
SelectedTheme ==
    LET name == last.args[2]
        snapshot == last.args[3]
    IN  IF name = "streamlit" \/ name \notin BokehThemes
        THEN [name |-> "streamlit", background_fill_color |-> snapshot[1],
              colorbar_fill_color |-> snapshot[2], text_color |-> snapshot[3],
              text_font |-> SourceSansPro]
        ELSE BuiltinTheme(name)

\* C27  Theme in effect at embed time: whenever a render call invokes
\* embed_item, the theme last given to use_theme (a setting of the page) is
\* the theme of that call's own selection, also when instances with
\* different selections render in alternation and an instance embeds again
\* because only its data changed.
C27_ThemeAtEmbed ==
    last.embedded => usedTheme = SelectedTheme

\* SpecFit: the render calls of one host on a page whose scripts are loaded,
\* with the chart definition, the host snapshot, use_container_width and the
\* width of the container varying from call to call.
FitWidths == {600, 1200}
NextFit ==
    \/ \E f \in SpecFigures, s \in Snapshots, useContainerWidth \in BOOLEAN,
          clientWidth \in FitWidths :
           /\ ~useContainerWidth => clientWidth = 1200
           /\ Render("h1", f, "streamlit", s, useContainerWidth, clientWidth)
    \/ ContainerAdded("h1")
    \/ Continue
SpecFit == Init /\ [][NextFit]_vars

\* C28  Native size in non-fit mode over any history: whenever a render call
\* whose use_container_width is false invokes embed_item, the definition it
\* hands over carries the width and height written in the serialized chart
\* definition of the call (400 and 350 when absent), also when the same
\* definition was embedded in fit mode before.
C28_NativeSizeNonFit ==
    \A c \in CallIds :
        (last.call = c /\ last.embedded /\ ~last.fit /\ calls[c].pc = "awaitEmbed") =>
            LET native == JSONparse(last.args[1]).attributes
                embedded == calls[c].embedData.attributes
            IN  /\ embedded.width =
                     IF "width" \in native.has THEN native.width ELSE Number(400)
                /\ embedded.height =
                     IF "height" \in native.has THEN native.height ELSE Number(350)

\* C29  Memo consistency: whenever the data memo holds a saved string, the
\* cached value is the parse of that string; hence a data check that reports
\* hasChanged = false returns the parse of the string it was given, also
\* after an earlier call failed to parse and after dimensions were written
\* onto the definition.
C29_MemoConsistent ==
    /\ unit.memo.savedFigure # Null =>
         /\ Parseable(unit.memo.savedFigure)
         /\ unit.memo.savedChartData = JSONparse(unit.memo.savedFigure)
    /\ (unit.call.op = "data" /\ ~unit.call.threw /\ ~unit.call.hasChanged) =>
         /\ Parseable(unit.call.figure)
         /\ unit.call.data = JSONparse(unit.call.figure)

\* SpecEntry: the render calls of the entry point of index.ts for two keys,
\* from a page without the scripts.
NextEntry ==
    \/ \E key \in Keys, figure \in SpecFigures, chartFound \in BOOLEAN :
           /\ entry.issued = 0 => key = "k1"
           /\ EntryRender(key, figure, chartFound)
    \/ EntryBokehDefined
    \/ \E key \in Keys : loadBokehTick(key)
    \/ \E key \in Keys : loadBokehTimeout(key)
    \/ \E c \in CallIds : EntryResume(c)
    \/ \E c \in CallIds : EntryEmbedDone(c)
SpecEntry == Init /\ [][NextEntry]_vars

\* C30  No embed before the assets are ready (entry point of index.ts): a
\* render call runs the lookup of the mount point and calls embed_item only
\* after the loads started for its key (loadBokeh, loadFonts, loadCss) have
\* completed; a second call issued while the first awaits the loads does
\* not get ahead of them.
C30_NoEmbedBeforeLoad ==
    entry.last.call # 0 => entry.last.loads = "resolved"

\* SpecComponent: the render calls of src/unnamed/part_007 on a page that
\* holds none of the scripts, with two keys; the figure, the theme name and
\* the presence of the container vary in the calls with the first key.
NextComponent ==
    \/ \E key \in Keys, figure \in {FigA, FigBad}, theme \in SpecThemes,
          containerFound \in BOOLEAN :
           /\ theme # "streamlit" => figure = FigA /\ containerFound
           /\ key # "k1" => figure = FigA /\ theme = "streamlit" /\ containerFound
           /\ ComponentRender(key, figure, theme, containerFound)
    \/ ComponentBokehDefined
    \/ \E c \in CallIds : ComponentTick(c)
    \/ \E c \in CallIds : ComponentTimeout(c)
    \/ \E c \in CallIds : ComponentResume(c)
    \/ \E c \in CallIds : ComponentEmbedDone(c)
SpecComponent == Init /\ [][NextComponent]_vars

\* C31  Scripts loaded once per component (bokehComponent of part_007): for
\* every key, the loads (core script, fonts, stylesheet) are started at
\* most once, whatever the sequence and interleaving of the render calls
\* with that key, a second call issued while the first awaits the loads
\* included.
C31_LoadedOncePerKey ==
    \A k \in Keys : entry.loadCalls[k] <= 1

\* C32  Bounded wait in the polling loader (loadBokeh of index.ts): once the
\* 5 s timer of a load has fired without window.Bokeh, the promise the
\* render call awaits has failed with "Bokeh not loaded": no load is
\* pending, and no call is waiting for it, after its timer fired, and the
\* calls that waited have ended with that error.
C32_BoundedWait ==
    /\ \A k \in Keys : entry.loads[k] = "pending" => entry.timer[k]
    /\ \A c \in CallIds :
           entry.calls[c].pc = "awaitLoads" => entry.timer[entry.calls[c].key]

\* In the sequence order every a comes before every b.
Before(order, a, b) ==
    \A i, j \in DOMAIN order : order[i] = a /\ order[j] = b => i < j

\* C33  Order inside one render call: a render call that reaches the checks
\* evaluates the data check and then the theme check, also when the data
\* check reports a change; what it registers with use_theme it registers
\* before it clears the mount point, and it clears the mount point before
\* it calls embed_item, which it never calls without clearing.
C33_OrderInCall ==
    last.ran /\ last.error = "none" =>
        /\ last.checked
        /\ \E i, j \in DOMAIN last.order :
               /\ last.order[i] = "getChartData"
               /\ last.order[j] = "setChartTheme"
        /\ Before(last.order, "use_theme", "removeAllChildNodes")
        /\ Before(last.order, "removeAllChildNodes", "embed_item")
        /\ last.usedTheme <=> \E i \in DOMAIN last.order : last.order[i] = "use_theme"
        /\ last.embedded <=>
               \E i, j \in DOMAIN last.order :
                   /\ last.order[i] = "removeAllChildNodes"
                   /\ last.order[j] = "embed_item"
C33_Witness ==
    /\ last.ran
    /\ last.hasChanged
    /\ last.order = <<"getChartData", "setChartTheme", "use_theme",
                      "removeAllChildNodes", "embed_item">>

\* The teardown callback of host h has been invoked and no render call was
\* issued on h since: the map holds no record for h after a teardown, or
\* every call issued on h so far has returned and been torn down.
AfterTeardown(h) ==
    /\ \E d \in CallIds : calls[d].host = h /\ calls[d].tornDown
    /\ \/ componentState[h] = 0
       \/ \A d \in CallIds : calls[d].host = h => calls[d].tornDown
\* Call c created its state record on a host that had calls before it: it
\* was the next call after a teardown.
FirstAfterTeardown(c) ==
    /\ calls[c].obj = c
    /\ \E d \in CallIds : d < c /\ calls[d].host = calls[c].host

\* C34  Fresh state after teardown: the next render call on a host after
\* its teardown callback was invoked creates a new state record, not
\* initialized and with empty memos, and awaits loadBokehGlobally; no step
\* of that call appends a script; when its await is over its data check
\* reports a change, it clears the mount point and calls embed_item,
\* although its figure, theme name and host snapshot are those of the render
\* before the teardown (every call of this specification carries the same).
C34_FreshAfterTeardown ==
    [][ /\ \A h \in Hosts :
               (AfterTeardown(h) /\ issued' = issued + 1 /\ calls'[issued'].host = h) =>
                   /\ componentState'[h] = issued'
                   /\ calls'[issued'].obj = issued'
                   /\ objs'[issued'] = FreshState
                   /\ calls'[issued'].pc = "awaitCore"
                   /\ appended' = appended
        /\ \A c \in CallIds :
               (FirstAfterTeardown(c) /\ calls'[c].pc # calls[c].pc) =>
                   /\ appended' = appended
                   /\ calls[c].pc = "awaitCore" => calls'[c].pc = "awaitPlugins"
                   /\ calls[c].pc = "awaitPlugins" =>
                          /\ calls'[c].pc = "awaitEmbed"
                          /\ objs'[c].initialized
                          /\ last'.call = c
                          /\ last'.hasChanged /\ last'.cleared /\ last'.embedded
                          /\ last'.args = <<FigA, "streamlit", stringify(LightSnapshot)>>
      ]_vars
C34_Witness ==
    /\ last.call # 0
    /\ FirstAfterTeardown(last.call)
    /\ last.loadResolved
    /\ last.embedded
    /\ calls[last.call].pc = "awaitEmbed"

\* Call c of host h has run getOrCreateChart (line 248): it went on to the
\* checks.
PastLookup(c, h) ==
    /\ calls[c].host = h
    /\ \/ calls[c].pc \in {"awaitEmbed", "done"}
       \/ calls[c].pc = "failed" /\ calls[c].error = "parse"

RacedTeardown(c) ==
    /\ calls[c].tornDown
    /\ last.raced = calls[c].host
    /\ \A d \in CallIds : calls[d].host = calls[c].host => calls[d].obj = calls[c].obj

\* C36  Teardown racing an in-flight render: when the teardown callback of
\* a host was invoked while a render call of that host was suspended and
\* no render call was issued since, the map holds no record for the host,
\* before and after the suspended call completes; the continuation of a
\* call never changes the map: a record enters it only in the step that
\* issues a render call.
C36_NoReinsert ==
    /\ [](\A c \in CallIds : RacedTeardown(c) => componentState[calls[c].host] = 0)
    /\ [][\A h \in Hosts :
              (componentState'[h] # componentState[h] /\ componentState'[h] # 0) =>
                  /\ issued' = issued + 1
                  /\ calls'[issued'].host = h]_vars
C36_Witness ==
    \E c, d \in CallIds :
        /\ c # d
        /\ RacedTeardown(c)
        /\ calls[d].host = calls[c].host
        /\ calls[d].pc = "done"
        /\ ~calls[d].tornDown
        /\ \A e \in CallIds :
               calls[e].host = calls[c].host => calls[e].pc \in {"done", "failed"}

\* C37  Single settlement of a script load: resolve() or reject() runs at
\* most once for the promise of a URL, and once when its handlers are done;
\* a settled promise keeps its outcome, whatever load event, error event or
\* timer comes later; the element is marked data-loaded="true" only in the
\* step in which onLoad resolves the pending promise, so the element of a
\* rejected promise is not marked; and a pending promise settles in the end.
C37_SingleSettlement ==
    /\ [](\A u \in BOKEH_URLS :
              /\ settled[u] <= 1
              /\ done[u] => settled[u] = 1 /\ scriptLoadPromises[u] \in {"resolved", "rejected"}
              /\ scriptLoadPromises[u] = "rejected" => ~dataLoaded[u] /\ done[u])
    /\ [][\A u \in BOKEH_URLS :
              /\ scriptLoadPromises[u] \in {"resolved", "rejected"} =>
                     /\ scriptLoadPromises'[u] = scriptLoadPromises[u]
                     /\ settled'[u] = settled[u]
                     /\ dataLoaded'[u] = dataLoaded[u]
              /\ (dataLoaded'[u] /\ ~dataLoaded[u]) =>
                     /\ scriptLoadPromises[u] = "pending"
                     /\ scriptLoadPromises'[u] = "resolved"
                     /\ settled'[u] = 1]_vars
    /\ \A u \in BOKEH_URLS :
           scriptLoadPromises[u] = "pending" ~> scriptLoadPromises[u] # "pending"
\* The promise made for an element found with readyState "complete" was
\* rejected by its timeout, and the timer of line 127 is still to fire; the
\* promise of another URL resolved through its load event.
C37_Witness ==
    \E u, v \in BOKEH_URLS :
        /\ scriptEl[u] = "complete"
        /\ scriptLoadPromises[u] = "rejected" /\ settled[u] = 1 /\ ~dataLoaded[u]
        /\ scriptLoadPromises[v] = "resolved" /\ settled[v] = 1 /\ dataLoaded[v]
        /\ appended[v] = 1
====
